---- MODULE Spec2Model ----
(***************************************************************************)
(* A model of the agent coordination core of adk-travel-agent:             *)
(*   - the agent registry           (src/mcp/discovery.py),                *)
(*   - the MCP protocol endpoint    (src/mcp/protocol.py, messages.py),    *)
(*   - the workflow orchestrator    (src/google_adk/orchestrator.py).      *)
(* Each component has its own specification (RegistrySpec, EndpointSpec,   *)
(* OrchSpec); the variables of the other components stay at their initial  *)
(* value.                                                                  *)
(***************************************************************************)
EXTENDS Integers, Sequences, FiniteSets, TLC

VARIABLES
    \* ---- AgentRegistry (discovery.py) ----
    agents,              \* self.agents: name -> AgentInfo
    endpoints,           \* self.endpoints: name -> ServiceEndpoint
    capabilities_index,  \* self.capabilities_index: capability -> set of names
    now,                 \* datetime.utcnow(), in seconds
    emitted,             \* events passed to _broadcast_agent_event by the last operation
    lastOp,              \* the last registry operation and what it returned
    \* ---- MCPProtocol (protocol.py), one endpoint ----
    is_connected,        \* self.is_connected
    session,             \* self.session: "none", "open" or "closed"
    message_handlers,    \* self.message_handlers: method -> handler
    pending_requests,    \* self.pending_requests: the request ids with a waiting future
    future,              \* the asyncio.Future of each request: state and result
    call,                \* the send_request coroutines, by request id; deadline
                         \* is the expiry of wait_for's timer while it is armed
    nextId,              \* the next fresh request id (uuid4)
    removals,            \* per request id: pops that removed its entry / found none
    posted,              \* the last envelope handed to the transport, with its target
    handled              \* the last incoming request given to _handle_request
                         \* and the response built for it
VARIABLES
    \* ---- AgentOrchestrator (orchestrator.py), one execute_conversation ----
    factory,             \* agent_factory.agents: name -> capabilities, is_running
    results,             \* the running result map of execute_conversation
    step,                \* the ConversationStep the for loop is at
    stepIdx,             \* how many steps of the list the loop has taken
    attempt,             \* the loop variable of _execute_step_with_recovery
    opc,                 \* where the execute_conversation coroutine is
    invocations,         \* execute_task calls made for the current step
    polls,               \* sleeps of _wait_for_dependencies for the current step
    lastTask,            \* the task given to the last execute_task, with its agent
    oerr,                \* the error execute_conversation raised
    lastFailure,         \* what the last failed attempt of the current step raised
    failures,            \* attempts of the current step that ended in the except branch
    successes            \* execute_task calls of the current step that returned
VARIABLES
    \* ---- MCPProtocol (protocol.py): notifications, send_message, lifecycle ----
    subscribers,         \* self.subscribers: event -> list of callbacks
    delivered,           \* the subscriber calls made for the last notification
    sendLog,             \* what the last direct send_message call did and returned
    hashes,              \* hash(agent_name) % 1000 in this process, per name
    selfAddr,            \* self.host and self.port
    lifecycle            \* the last start() or stop() call and what it did
VARIABLES
    \* ---- AgentOrchestrator (orchestrator.py), one resolve_consensus ----
    behaviour,           \* agent_factory.agents: name -> how it answers consensus_vote
    cRequest,            \* the ConsensusRequest given to resolve_consensus
    cTasks,              \* tasks: the names of the coroutines built, in order
    cIdx,                \* how many entries of tasks the second loop has awaited
    cResponses,          \* responses, in insertion order: agent name and vote
    cpc,                 \* where the resolve_consensus coroutine is
    cStart,              \* the time collection started
    cWaitStart,          \* the time the current wait_for started
    verdict,             \* what resolve_consensus returned
    cerr,                \* what resolve_consensus raised
    received,            \* the last envelope given to _handle_incoming_message, and its reply
    suspended,           \* the tasks of _handle_incoming_message that wait in a handler or subscriber
    timers,              \* the sleeping loops: "sweep" or a client's agent name -> when it wakes
    baseAgents           \* BaseAgent objects: name -> is_running and what start/stop last did

regVars == <<agents, endpoints, capabilities_index, emitted, lastOp>>
epVars == <<is_connected, session, message_handlers, pending_requests, future,
            call, nextId, removals, posted, handled>>

orchVars == <<factory, results, step, stepIdx, attempt, opc, invocations, polls,
              lastTask, oerr, lastFailure, failures, successes>>

consVars == <<behaviour, cRequest, cTasks, cIdx, cResponses, cpc, cStart,
              cWaitStart, verdict, cerr>>

moreVars == <<received, suspended, timers, baseAgents>>

wireVars == <<subscribers, delivered, sendLog, hashes, selfAddr, moreVars>>

vars == <<regVars, epVars, orchVars, consVars, wireVars, lifecycle, now>>

None == "None"

(***************************************************************************)
(* Bounds of the model.                                                    *)
(***************************************************************************)
MaxCaps == 2        \* longest capability list of an AgentInfo
MaxTime == 400      \* the clock stops advancing after MaxTime seconds
TickSeconds == 100  \* granularity of the clock
MaxRequests == 2    \* send_request calls made on the endpoint
MaxSteps == 2       \* longest list of steps given to execute_conversation
MaxRetries == 2     \* largest max_retries of a step
MaxPolls == 2       \* the count of dependency-wait sleeps saturates here
MaxParticipants == 3 \* longest agents list of a ConsensusRequest
MaxSessions == 2    \* the counts of sessions opened and closed saturate here
MaxTasks == 2                  \* incoming messages being handled at the same time
MaxRuns == 2                   \* initialize / _cleanup runs of a BaseAgent that are counted
ClockStep == 10                \* the grain of the clock of the heartbeat and sweep loops, seconds
MaxSubscriptions == 3 \* subscribe calls made on the endpoint

AgentNames == {"a1", "a2"}
CapNames == {"c1", "c2"}
AgentTypes == {"worker"}
ServiceEndpoints ==
    { [host |-> "localhost", port |-> p, protocol |-> "http"] : p \in {8001, 8002} }

\* the capability lists an AgentInfo may carry (a list: duplicates allowed)
CapLists == UNION { [1..n -> CapNames] : n \in 0..MaxCaps }

Range(s) == { s[i] : i \in DOMAIN s }

\* dict helpers
DictDel(d, k) == [x \in (DOMAIN d) \ {k} |-> d[x]]
DictPut(d, k, v) == [x \in (DOMAIN d) \cup {k} |-> IF x = k THEN v ELSE d[x]]

(***************************************************************************)
(* The state after construction                                            *)
(***************************************************************************)
NoMessage == [type |-> "none"]

\* AgentRegistry.__init__
RegistryNew ==
    /\ agents = <<>>
    /\ endpoints = <<>>
    /\ capabilities_index = <<>>
    /\ emitted = <<>>
    /\ lastOp = [op |-> "init", name |-> None, ret |-> None]

\* MCPProtocol.__init__
EndpointNew ==
    /\ is_connected = FALSE
    /\ session = "none"
    /\ message_handlers = <<>>
    /\ pending_requests = {}
    /\ future = <<>>
    /\ call = <<>>
    /\ nextId = 1
    /\ removals = <<>>
    /\ posted = [target |-> None, msg |-> NoMessage]
    /\ handled = [request |-> NoMessage, response |-> NoMessage]

NoStep == [agent_name |-> None]
NoTask == [agent |-> None]

\* the factory before any agent is created, the orchestrator before a run
OrchestratorNew ==
    /\ factory = <<>>
    /\ results = <<>>
    /\ step = NoStep
    /\ stepIdx = 0
    /\ attempt = 0
    /\ opc = "idle"
    /\ invocations = 0
    /\ polls = 0
    /\ lastTask = NoTask
    /\ oerr = None
    /\ lastFailure = None
    /\ failures = 0
    /\ successes = 0

NoRequest == [agents |-> <<>>, consensus_type |-> None, timeout |-> 0]
NoVerdict == [consensus |-> None]

\* the orchestrator before resolve_consensus is called
ConsensusNew ==
    /\ behaviour = <<>>
    /\ cRequest = NoRequest
    /\ cTasks = <<>>
    /\ cIdx = 0
    /\ cResponses = <<>>
    /\ cpc = "idle"
    /\ cStart = 0
    /\ cWaitStart = 0
    /\ verdict = NoVerdict
    /\ cerr = None

NoSend == [sent |-> FALSE]
NoReceipt == [data |-> NoMessage, message |-> NoMessage, status |-> "none"]

\* BaseAgent.__init__: is_running = False
NewBaseAgent ==
    [is_running |-> FALSE, inits |-> 0, cleanups |-> 0,
     last |-> [op |-> "init", ran |-> FALSE, raised |-> "None"]]

\* nothing received yet, no loop started, agents constructed
MoreNew ==
    /\ received = NoReceipt
    /\ suspended = <<>>
    /\ timers = <<>>
    /\ baseAgents = [n \in AgentNames |-> NewBaseAgent]
NoDelivery == [notification |-> NoMessage, calls |-> <<>>]
DefaultPort == 8888     \* MCPProtocol.__init__(..., port=8888)

\* the rest of MCPProtocol.__init__, and the process's string hashes
WireNew ==
    /\ subscribers = <<>>
    /\ delivered = NoDelivery
    /\ sendLog = NoSend
    /\ hashes = <<>>
    /\ selfAddr = [host |-> "localhost", port |-> DefaultPort]
    /\ lifecycle = [op |-> "init", noop |-> FALSE, opens |-> 0, closes |-> 0]
    /\ MoreNew

\* time passes
Tick ==
    /\ now + TickSeconds <= MaxTime
    /\ now' = now + TickSeconds
    /\ UNCHANGED <<regVars, epVars, orchVars, wireVars, lifecycle, consVars>>

(***************************************************************************)
(* AgentRegistry                                                           *)
(***************************************************************************)
CleanupMaxAge == 300    \* _cleanup_stale_agents(max_age_seconds=300)

\* second loop of _update_capabilities_index: add the agent to the bucket of
\* each capability of the list, creating the bucket when it is missing
RECURSIVE AddCapabilities(_, _, _)
AddCapabilities(index, agent_name, caps) ==
    IF caps = <<>> THEN index
    ELSE LET c == Head(caps)
             withBucket == IF c \notin DOMAIN index
                           THEN DictPut(index, c, {})
                           ELSE index
         IN  AddCapabilities(DictPut(withBucket, c, withBucket[c] \cup {agent_name}),
                             agent_name, Tail(caps))

\* a variant that skips the first loop (stale entries are never discarded)
UpdateCapabilitiesIndexNoDiscard(index, agent_name, caps) ==
    AddCapabilities(index, agent_name, caps)

\* _update_capabilities_index: discard the agent from every bucket, then add
\* it to the buckets of its current capabilities
UpdateCapabilitiesIndex(index, agent_name, caps) ==
    LET discarded == [c \in DOMAIN index |-> index[c] \ {agent_name}]
    IN  AddCapabilities(discarded, agent_name, caps)

\* a variant that keeps a bucket the removal left empty
RECURSIVE PurgeCapabilitiesKeepEmpty(_, _, _)
PurgeCapabilitiesKeepEmpty(index, agent_name, caps) ==
    IF caps = <<>> THEN index
    ELSE LET c == Head(caps)
         IN  IF c \in DOMAIN index
             THEN PurgeCapabilitiesKeepEmpty(
                     DictPut(index, c, index[c] \ {agent_name}),
                     agent_name, Tail(caps))
             ELSE PurgeCapabilitiesKeepEmpty(index, agent_name, Tail(caps))

\* the loop of unregister_agent over agent_info.capabilities: discard the
\* agent from the capability's bucket and delete the bucket if it is empty
RECURSIVE PurgeCapabilities(_, _, _)
PurgeCapabilities(index, agent_name, caps) ==
    IF caps = <<>> THEN index
    ELSE LET c == Head(caps)
         IN  IF c \in DOMAIN index
             THEN LET bucket == index[c] \ {agent_name}
                  IN  PurgeCapabilities(
                         IF bucket = {} THEN DictDel(index, c)
                                        ELSE DictPut(index, c, bucket),
                         agent_name, Tail(caps))
             ELSE PurgeCapabilities(index, agent_name, Tail(caps))

\* the registry state after unregister_agent(agent_name) on a registered agent
UnregisterState(st, agent_name) ==
    [agents    |-> DictDel(st.agents, agent_name),
     endpoints |-> DictDel(st.endpoints, agent_name),
     index     |-> PurgeCapabilities(st.index, agent_name,
                                     st.agents[agent_name].capabilities),
     emitted   |-> Append(st.emitted,
                          [event |-> "agent_unregistered", agent_name |-> agent_name])]

\* the second loop of _cleanup_stale_agents: unregister every stale agent
RECURSIVE UnregisterAll(_, _)
UnregisterAll(st, stale) ==
    IF stale = {} THEN st
    ELSE LET n == CHOOSE x \in stale : TRUE
         IN  UnregisterAll(UnregisterState(st, n), stale \ {n})

\* a variant of the staleness test that finds no agent stale
StaleAgentsNone(ags, t, max_age_seconds) ==
    { n \in DOMAIN ags : FALSE }

\* a variant of the staleness test that also takes an agent whose age is
\* exactly max_age
StaleAgentsInclusive(ags, t, max_age_seconds) ==
    { n \in DOMAIN ags : ags[n].last_seen <= t - max_age_seconds }

\* the first loop of _cleanup_stale_agents: last_seen < utcnow() - max_age
StaleAgents(ags, t, max_age_seconds) ==
    { n \in DOMAIN ags : ags[n].last_seen < t - max_age_seconds }

RegState == [agents |-> agents, endpoints |-> endpoints,
             index |-> capabilities_index, emitted |-> <<>>]

RegistryInit ==
    /\ RegistryNew /\ EndpointNew /\ OrchestratorNew /\ ConsensusNew /\ WireNew
    /\ now = 0

\* a variant of register_agent that keeps the endpoint of a name that is
\* already registered
RegisterAgentKeepsEndpoint(name, type, caps, ep) ==
    /\ agents' = DictPut(agents, name,
                         [name |-> name, agent_type |-> type,
                          capabilities |-> caps, last_seen |-> now])
    /\ endpoints' = IF name \in DOMAIN endpoints THEN endpoints
                    ELSE DictPut(endpoints, name, ep)
    /\ capabilities_index' = UpdateCapabilitiesIndex(capabilities_index, name, caps)
    /\ emitted' = << [event |-> "agent_registered", agent_name |-> name] >>
    /\ lastOp' = [op |-> "register", name |-> name, ret |-> TRUE,
                  agent_type |-> type, capabilities |-> caps, endpoint |-> ep]
    /\ UNCHANGED <<now, epVars, orchVars, wireVars, lifecycle, consVars>>

\* register_agent(agent_info, endpoint)
RegisterAgent(name, type, caps, ep) ==
    /\ agents' = DictPut(agents, name,
                         [name |-> name, agent_type |-> type,
                          capabilities |-> caps, last_seen |-> now])
    /\ endpoints' = DictPut(endpoints, name, ep)
    /\ capabilities_index' = UpdateCapabilitiesIndex(capabilities_index, name, caps)
    /\ emitted' = << [event |-> "agent_registered", agent_name |-> name] >>
    /\ lastOp' = [op |-> "register", name |-> name, ret |-> TRUE,
                  agent_type |-> type, capabilities |-> caps, endpoint |-> ep]
    /\ UNCHANGED <<now, epVars, orchVars, wireVars, lifecycle, consVars>>

\* unregister_agent(agent_name)
UnregisterAgent(name) ==
    /\ IF name \notin DOMAIN agents
       THEN /\ UNCHANGED <<agents, endpoints, capabilities_index>>
            /\ emitted' = <<>>
            /\ lastOp' = [op |-> "unregister", name |-> name, ret |-> FALSE]
       ELSE LET st == UnregisterState(RegState, name)
            IN  /\ agents' = st.agents
                /\ endpoints' = st.endpoints
                /\ capabilities_index' = st.index
                /\ emitted' = st.emitted
                /\ lastOp' = [op |-> "unregister", name |-> name, ret |-> TRUE]
    /\ UNCHANGED <<now, epVars, orchVars, wireVars, lifecycle, consVars>>

\* a variant of update_agent_heartbeat that creates a record for a name it
\* does not know
UpdateAgentHeartbeatUpsert(name) ==
    /\ agents' = DictPut(agents, name,
                         IF name \in DOMAIN agents
                         THEN [agents[name] EXCEPT !.last_seen = now]
                         ELSE [name |-> name, agent_type |-> "worker",
                               capabilities |-> <<>>, last_seen |-> now])
    /\ lastOp' = [op |-> "heartbeat", name |-> name, ret |-> TRUE]
    /\ emitted' = <<>>
    /\ UNCHANGED <<endpoints, capabilities_index, now,
                   epVars, orchVars, wireVars, lifecycle, consVars>>

\* update_agent_heartbeat(agent_name)
UpdateAgentHeartbeat(name) ==
    /\ IF name \in DOMAIN agents
       THEN /\ agents' = [agents EXCEPT ![name].last_seen = now]
            /\ lastOp' = [op |-> "heartbeat", name |-> name, ret |-> TRUE]
       ELSE /\ UNCHANGED agents
            /\ lastOp' = [op |-> "heartbeat", name |-> name, ret |-> FALSE]
    /\ emitted' = <<>>
    /\ UNCHANGED <<endpoints, capabilities_index, now,
                   epVars, orchVars, wireVars, lifecycle, consVars>>

\* one round of _periodic_cleanup: _cleanup_stale_agents()
CleanupStaleAgents ==
    LET st == UnregisterAll(RegState, StaleAgents(agents, now, CleanupMaxAge))
    IN  /\ agents' = st.agents
        /\ endpoints' = st.endpoints
        /\ capabilities_index' = st.index
        /\ emitted' = st.emitted
        /\ lastOp' = [op |-> "cleanup", name |-> None, ret |-> None]
        /\ UNCHANGED <<now, epVars, orchVars, wireVars, lifecycle, consVars>>

RegistryNext ==
    \/ \E n \in AgentNames, t \in AgentTypes, caps \in CapLists, ep \in ServiceEndpoints :
          RegisterAgent(n, t, caps, ep)
    \/ \E n \in AgentNames : UnregisterAgent(n)
    \/ \E n \in AgentNames : UpdateAgentHeartbeat(n)
    \/ CleanupStaleAgents
    \/ Tick

RegistrySpec == RegistryInit /\ [][RegistryNext]_vars

\* the clock keeps advancing and the task created by start() keeps running
\* _periodic_cleanup: sleep(60) returns and _cleanup_stale_agents is called
\* The registry calls with capability lists of at most one entry.
SweepNext ==
    \/ \E n \in AgentNames, t \in AgentTypes, ep \in ServiceEndpoints :
          \E caps \in { c \in CapLists : Len(c) <= 1 } : RegisterAgent(n, t, caps, ep)
    \/ \E n \in AgentNames : UnregisterAgent(n)
    \/ \E n \in AgentNames : UpdateAgentHeartbeat(n)
    \/ CleanupStaleAgents
    \/ Tick

RegistryFairSpec ==
    RegistryInit /\ [][SweepNext]_vars /\ WF_vars(Tick) /\ WF_vars(CleanupStaleAgents)

(***************************************************************************)
(* DiscoveryClient and the registry's sweep, on one clock                  *)
(***************************************************************************)
HeartbeatInterval == 30     \* DiscoveryClient._heartbeat_interval
CleanupInterval == 60       \* AgentRegistry._cleanup_interval

\* the clients whose heartbeat loop is running
Clients == DOMAIN timers \ {"sweep"}

\* the earliest time a sleeping loop wakes
NextDue ==
    IF DOMAIN timers = {} THEN MaxTime
    ELSE LET k == CHOOSE x \in DOMAIN timers :
                     \A y \in DOMAIN timers : timers[x] <= timers[y]
         IN  timers[k]

\* AgentRegistry.start(): the _periodic_cleanup task is created and sleeps
RegistryStart ==
    /\ "sweep" \notin DOMAIN timers
    /\ timers' = DictPut(timers, "sweep", now + CleanupInterval)
    /\ UNCHANGED <<regVars, received, suspended, baseAgents, subscribers, delivered, sendLog,
                   hashes, selfAddr, lifecycle, epVars, orchVars, consVars, now>>

\* DiscoveryClient(name, registry).register(agent_info, endpoint) for the
\* client's own agent: register_agent, then the heartbeat task is created
ClientRegister(name, type, caps, ep) ==
    /\ name \notin DOMAIN timers
    /\ agents' = DictPut(agents, name,
                         [name |-> name, agent_type |-> type,
                          capabilities |-> caps, last_seen |-> now])
    /\ endpoints' = DictPut(endpoints, name, ep)
    /\ capabilities_index' = UpdateCapabilitiesIndex(capabilities_index, name, caps)
    /\ emitted' = << [event |-> "agent_registered", agent_name |-> name] >>
    /\ lastOp' = [op |-> "register", name |-> name, ret |-> TRUE,
                  agent_type |-> type, capabilities |-> caps, endpoint |-> ep]
    /\ timers' = DictPut(timers, name, now + HeartbeatInterval)
    /\ UNCHANGED <<received, suspended, baseAgents, subscribers, delivered, sendLog, hashes,
                   selfAddr, lifecycle, epVars, orchVars, consVars, now>>

\* a variant of the heartbeat loop that sleeps and sends nothing
HeartbeatLoopIdle(name) ==
    /\ name \in Clients
    /\ timers[name] = now
    /\ lastOp' = [op |-> "heartbeat", name |-> name, ret |-> FALSE]
    /\ emitted' = <<>>
    /\ timers' = [timers EXCEPT ![name] = now + HeartbeatInterval]
    /\ UNCHANGED <<agents, endpoints, capabilities_index, received, suspended, baseAgents,
                   subscribers, delivered, sendLog, hashes, selfAddr, lifecycle,
                   epVars, orchVars, consVars, now>>

\* one round of _heartbeat_loop: the sleep is over,
\* registry.update_agent_heartbeat(agent_name), sleep again
HeartbeatLoop(name) ==
    /\ name \in Clients
    /\ timers[name] = now
    /\ IF name \in DOMAIN agents
       THEN /\ agents' = [agents EXCEPT ![name].last_seen = now]
            /\ lastOp' = [op |-> "heartbeat", name |-> name, ret |-> TRUE]
       ELSE /\ UNCHANGED agents
            /\ lastOp' = [op |-> "heartbeat", name |-> name, ret |-> FALSE]
    /\ emitted' = <<>>
    /\ timers' = [timers EXCEPT ![name] = now + HeartbeatInterval]
    /\ UNCHANGED <<endpoints, capabilities_index, received, suspended, baseAgents, subscribers,
                   delivered, sendLog, hashes, selfAddr, lifecycle,
                   epVars, orchVars, consVars, now>>

\* one round of _periodic_cleanup: the sleep is over,
\* _cleanup_stale_agents(), sleep again
PeriodicCleanup ==
    LET st == UnregisterAll(RegState, StaleAgents(agents, now, CleanupMaxAge))
    IN  /\ "sweep" \in DOMAIN timers
        /\ timers["sweep"] = now
        /\ agents' = st.agents
        /\ endpoints' = st.endpoints
        /\ capabilities_index' = st.index
        /\ emitted' = st.emitted
        /\ lastOp' = [op |-> "cleanup", name |-> None, ret |-> None]
        /\ timers' = [timers EXCEPT !["sweep"] = now + CleanupInterval]
        /\ UNCHANGED <<received, suspended, baseAgents, subscribers, delivered, sendLog, hashes,
                       selfAddr, lifecycle, epVars, orchVars, consVars, now>>

\* the clock moves on, by one grain or to the moment the next loop wakes,
\* never past a loop that is due
TimePasses ==
    /\ \E t \in {now + ClockStep, NextDue} :
          /\ t > now
          /\ t <= NextDue
          /\ t <= MaxTime
          /\ now' = t
    /\ UNCHANGED <<regVars, epVars, orchVars, wireVars, lifecycle, consVars>>

\* a registry with its sweep, one agent behind a DiscoveryClient and one
\* registered directly
HeartbeatNext ==
    \/ RegistryStart
    \/ \E ep \in ServiceEndpoints : ClientRegister("a1", "worker", <<"c1">>, ep)
    \/ \E ep \in ServiceEndpoints : RegisterAgent("a2", "worker", <<"c1">>, ep)
    \/ \E n \in AgentNames : HeartbeatLoop(n)
    \/ PeriodicCleanup
    \/ TimePasses

HeartbeatSpec == RegistryInit /\ [][HeartbeatNext]_vars

MaxAges == {TickSeconds, 120, CleanupMaxAge}   \* max_age_seconds arguments

\* a variant of is_agent_available whose boundary is exclusive
IsAgentAvailableStrict(agent_name, max_age_seconds) ==
    /\ agent_name \in DOMAIN agents
    /\ now - agents[agent_name].last_seen < max_age_seconds

\* is_agent_available(agent_name, max_age_seconds)
IsAgentAvailable(agent_name, max_age_seconds) ==
    IF agent_name \notin DOMAIN agents THEN FALSE
    ELSE LET age == now - agents[agent_name].last_seen
         IN  age <= max_age_seconds

\* find_agents_by_capability(capability)
FindAgentsByCapability(capability) ==
    IF capability \in DOMAIN capabilities_index
    THEN capabilities_index[capability] ELSE {}

\* get_all_capabilities()
GetAllCapabilities == DOMAIN capabilities_index

(***************************************************************************)
(* Message model (messages.py)                                             *)
(***************************************************************************)
SelfName == "self"             \* MCPProtocol.agent_name of the endpoint
Methods == {"m1", "m2"}
Recipients == {"a1"}           \* the peers send_request addresses
Timeouts == {100, 200}         \* timeout arguments of send_request and ConsensusRequest, seconds
RemoteIds == {901, 902}        \* ids of requests created by other endpoints
NoId == 0                      \* correlation_id None / an id never issued here

\* RequestMessage as built by send_request / create_request
RequestMessage(id, sender, recipient, method, timeout) ==
    [type |-> "request", id |-> id, sender |-> sender, recipient |-> recipient,
     method |-> method, timeout_seconds |-> timeout]

\* a variant that addresses the response to the request's recipient
CreateResponseToRecipient(request, success, result, error) ==
    [type |-> "response",
     sender |-> IF request.recipient # None THEN request.recipient ELSE "unknown",
     recipient |-> request.recipient,
     request_id |-> request.id,
     success |-> success,
     result |-> result,
     error |-> error,
     correlation_id |-> request.id]

\* create_response(request, success, result, error)
CreateResponse(request, success, result, error) ==
    [type |-> "response",
     sender |-> IF request.recipient # None THEN request.recipient ELSE "unknown",
     recipient |-> request.sender,
     request_id |-> request.id,
     success |-> success,
     result |-> result,
     error |-> error,
     correlation_id |-> request.id]

\* the requests other endpoints may post to this one
IncomingRequests ==
    { RequestMessage(i, s, r, m, 30) :
        i \in RemoteIds, s \in AgentNames, r \in {SelfName, None}, m \in Methods }

\* the responses other endpoints may post to this one: ResponseMessage(**data)
\* requires request_id, correlation_id is optional and independent of it
IncomingResponses ==
    { [type |-> "response", request_id |-> r, correlation_id |-> c] :
        r \in 0..(nextId - 1), c \in 0..(nextId - 1) }

(***************************************************************************)
(* MCPProtocol                                                             *)
(***************************************************************************)
HandlerKinds == {"returns", "raises"}   \* what a registered handler does

\* a variant of the pop that looks the entry up without removing it
PendingGet(table, id) == table

\* self.pending_requests.pop(id, None): the table without the entry
PendingPop(table, id) == table \ {id}

\* bookkeeping of a pop: did it remove the entry or find none
CountPop(id) ==
    IF id \notin DOMAIN removals THEN removals
    ELSE IF id \in pending_requests
         THEN [removals EXCEPT ![id].removed = @ + 1]
         ELSE [removals EXCEPT ![id].noop = TRUE]

\* a variant that matches a response to a request by its correlation_id
ResponseKeyCorrelation(response) == response.correlation_id

\* the key _handle_response looks up: response.request_id
ResponseKey(response) == response.request_id

\* the count of sessions opened or closed, which saturates at MaxSessions
Counted1(n) == IF n < MaxSessions THEN n + 1 ELSE n

\* a variant of start() without its guard
StartGuardMissing == FALSE

\* start(): if self.is_connected: return
StartGuard == is_connected

\* a variant of stop() without its guard
StopGuardMissing == FALSE

\* stop(): if not self.is_connected: return
StopGuard == ~is_connected

\* start()
Start ==
    /\ IF StartGuard
       THEN /\ UNCHANGED <<is_connected, session>>
            /\ lifecycle' = [lifecycle EXCEPT !.op = "start", !.noop = TRUE]
       ELSE /\ session' = "open"
            /\ is_connected' = TRUE
            /\ lifecycle' = [lifecycle EXCEPT !.op = "start", !.noop = FALSE,
                                              !.opens = Counted1(@)]
    /\ UNCHANGED <<message_handlers, pending_requests, future, call, nextId,
                   removals, posted, handled,
                   regVars, orchVars, wireVars, consVars, now>>

\* a variant of stop() that cancels the futures of the pending requests and
\* empties the table
StopCancelsPending ==
    /\ IF StopGuard
       THEN /\ UNCHANGED <<is_connected, session, pending_requests, future>>
            /\ lifecycle' = [lifecycle EXCEPT !.op = "stop", !.noop = TRUE]
       ELSE /\ is_connected' = FALSE
            /\ session' = IF session # "none" THEN "closed" ELSE session
            /\ pending_requests' = {}
            /\ future' = [id \in DOMAIN future |->
                            IF id \in pending_requests /\ future[id].state = "pending"
                            THEN [future[id] EXCEPT !.state = "cancelled"]
                            ELSE future[id]]
            /\ lifecycle' = [lifecycle EXCEPT !.op = "stop", !.noop = FALSE,
                                              !.closes = IF session # "none"
                                                         THEN Counted1(@) ELSE @]
    /\ UNCHANGED <<message_handlers, call, nextId, removals, posted, handled,
                   regVars, orchVars, wireVars, consVars, now>>

\* stop()
Stop ==
    /\ IF StopGuard
       THEN /\ UNCHANGED <<is_connected, session>>
            /\ lifecycle' = [lifecycle EXCEPT !.op = "stop", !.noop = TRUE]
       ELSE /\ is_connected' = FALSE
            /\ session' = IF session # "none" THEN "closed" ELSE session
            /\ lifecycle' = [lifecycle EXCEPT !.op = "stop", !.noop = FALSE,
                                              !.closes = IF session # "none"
                                                         THEN Counted1(@) ELSE @]
    /\ UNCHANGED <<message_handlers, pending_requests, future, call, nextId,
                   removals, posted, handled,
                   regVars, orchVars, wireVars, consVars, now>>

\* register_handler(method, handler): the last registration wins
RegisterHandler(method, kind) ==
    /\ message_handlers' = DictPut(message_handlers, method, kind)
    /\ UNCHANGED <<is_connected, session, pending_requests, future, call, nextId,
                   removals, posted, handled,
                   regVars, orchVars, wireVars, lifecycle, consVars, now>>

\* send_message(message, target_agent) up to the transport call: the envelope
\* handed to session.post, none when the endpoint is not connected
SendMessagePost(message, target_agent) ==
    IF ~is_connected THEN posted
    ELSE [target |-> IF target_agent # None THEN target_agent ELSE message.recipient,
          msg |-> message]

\* str(b) of a bool
BoolStr(b) == IF b THEN "True" ELSE "False"

\* a variant of send_request that waits for the response whatever
\* send_message returned
AfterSendAlwaysWaits(success) == "wait"

\* send_request after send_message: if not success: raise, else wait_for
AfterSend(success) == IF success THEN "wait" ELSE "raise"

\* send_request(recipient, method, params, timeout), up to its first
\* suspension: the request and its future are created and registered, then
\* send_message either fails at once (not connected) or starts the POST
SendRequest(recipient, method, timeout) ==
    LET id == nextId
        request == RequestMessage(id, SelfName, recipient, method, timeout)
    IN  /\ nextId <= MaxRequests
        /\ nextId' = nextId + 1
        /\ future' = DictPut(future, id, [state |-> "pending", result |-> NoMessage])
        /\ posted' = SendMessagePost(request, recipient)
        /\ IF is_connected
           THEN /\ pending_requests' = pending_requests \cup {id}
                /\ removals' = DictPut(removals, id, [removed |-> 0, noop |-> FALSE])
                /\ call' = DictPut(call, id,
                              [pc |-> "sending", request |-> request,
                               success |-> None, waited |-> FALSE,
                               deadline |-> 0, ret |-> NoMessage, err |-> None])
           ELSE IF AfterSend(FALSE) = "raise"
           THEN \* send_message returned False: except Exception -> pop -> raise
                /\ pending_requests' = PendingPop(pending_requests \cup {id}, id)
                /\ removals' = DictPut(removals, id, [removed |-> 1, noop |-> FALSE])
                /\ call' = DictPut(call, id,
                              [pc |-> "raised", request |-> request,
                               success |-> "False", waited |-> FALSE,
                               deadline |-> 0, ret |-> NoMessage,
                               err |-> [type |-> "Exception",
                                        msg |-> "Failed to send request"]])
           ELSE /\ pending_requests' = pending_requests \cup {id}
                /\ removals' = DictPut(removals, id, [removed |-> 0, noop |-> FALSE])
                /\ call' = DictPut(call, id,
                              [pc |-> "waiting", request |-> request,
                               success |-> "False", waited |-> TRUE,
                               deadline |-> now + timeout,
                               ret |-> NoMessage, err |-> None])
        /\ UNCHANGED <<is_connected, session, message_handlers, handled,
                       regVars, orchVars, wireVars, lifecycle, consVars, now>>

\* send_request resumes when the POST of send_message completes: on failure
\* it pops its entry and raises; on success it waits on the future, which
\* returns at once when the response has already been delivered
SendRequestPosted(id, ok) ==
    /\ id \in DOMAIN call
    /\ call[id].pc = "sending"
    /\ IF AfterSend(ok) = "raise"
       THEN /\ pending_requests' = PendingPop(pending_requests, id)
            /\ removals' = CountPop(id)
            /\ call' = [call EXCEPT ![id].pc = "raised",
                                    ![id].success = BoolStr(ok),
                                    ![id].err = [type |-> "Exception",
                                                 msg |-> "Failed to send request"]]
       ELSE /\ UNCHANGED <<pending_requests, removals>>
            /\ IF future[id].state = "done"
               THEN call' = [call EXCEPT ![id].pc = "returned",
                                         ![id].success = BoolStr(ok),
                                         ![id].waited = TRUE,
                                         ![id].ret = future[id].result]
               ELSE call' = [call EXCEPT ![id].pc = "waiting",
                                         ![id].success = BoolStr(ok),
                                         ![id].waited = TRUE,
                                         ![id].deadline =
                                            now + call[id].request.timeout_seconds]
    /\ UNCHANGED <<is_connected, session, message_handlers, future, nextId,
                   posted, handled, regVars, orchVars, wireVars, lifecycle, consVars, now>>

\* asyncio.wait_for(future, timeout): the timer expires while the future is
\* still pending; wait_for cancels the future and will raise TimeoutError
WaitForTimeout(id) ==
    /\ id \in DOMAIN call
    /\ call[id].pc = "waiting"
    /\ future[id].state = "pending"
    /\ now >= call[id].deadline
    /\ future' = [future EXCEPT ![id].state = "cancelled"]
    /\ call' = [call EXCEPT ![id].pc = "timedout"]
    /\ UNCHANGED <<is_connected, session, message_handlers, pending_requests,
                   nextId, removals, posted, handled,
                   regVars, orchVars, wireVars, lifecycle, consVars, now>>

\* send_request, except asyncio.TimeoutError: pop the entry, raise
SendRequestTimeout(id) ==
    /\ id \in DOMAIN call
    /\ call[id].pc = "timedout"
    /\ pending_requests' = PendingPop(pending_requests, id)
    /\ removals' = CountPop(id)
    /\ call' = [call EXCEPT ![id].pc = "raised",
                            ![id].deadline = 0,
                            ![id].err = [type |-> "Exception",
                                         msg |-> "Request timeout"]]
    /\ UNCHANGED <<is_connected, session, message_handlers, future, nextId,
                   posted, handled, regVars, orchVars, wireVars, lifecycle, consVars, now>>

\* send_request: wait_for returns the result set on the future
SendRequestReturn(id) ==
    /\ id \in DOMAIN call
    /\ call[id].pc = "waiting"
    /\ future[id].state = "done"
    /\ call' = [call EXCEPT ![id].pc = "returned", ![id].deadline = 0,
                            ![id].ret = future[id].result]
    /\ UNCHANGED <<is_connected, session, message_handlers, pending_requests,
                   future, nextId, removals, posted, handled,
                   regVars, orchVars, wireVars, lifecycle, consVars, now>>

\* _handle_response(response)
HandleResponse(response) ==
    LET key == ResponseKey(response)
    IN  /\ pending_requests' = PendingPop(pending_requests, key)
        /\ removals' = CountPop(key)
        /\ IF key \in pending_requests /\ future[key].state = "pending"
           THEN future' = [future EXCEPT ![key] = [state |-> "done", result |-> response]]
           ELSE UNCHANGED future
        /\ UNCHANGED <<is_connected, session, message_handlers, call, nextId,
                       posted, handled, regVars, orchVars, wireVars, lifecycle, consVars, now>>

\* a variant of the handler lookup that answers a request for an
\* unregistered method with an empty success
HandlerResponseNoLookup(request) ==
    IF request.method \notin DOMAIN message_handlers
    THEN CreateResponse(request, TRUE, None, None)
    ELSE IF message_handlers[request.method] = "returns"
         THEN CreateResponse(request, TRUE, "result", None)
         ELSE CreateResponse(request, FALSE, None, "handler error")

\* the response _handle_request builds: an error response when there is no
\* handler or the handler raises, a success response with the handler's
\* result otherwise
HandlerResponse(request) ==
    IF request.method \notin DOMAIN message_handlers
    THEN CreateResponse(request, FALSE, None, "No handler for method")
    ELSE IF message_handlers[request.method] = "returns"
         THEN CreateResponse(request, TRUE, "result", None)
         ELSE CreateResponse(request, FALSE, None, "handler error")

\* _handle_request(request): look the handler up, run it, send the response
HandleRequest(request) ==
    LET response == HandlerResponse(request)
    IN  /\ handled' = [request |-> request, response |-> response]
        /\ posted' = SendMessagePost(response, None)
        /\ UNCHANGED <<is_connected, session, message_handlers, pending_requests,
                       future, call, nextId, removals,
                       regVars, orchVars, wireVars, lifecycle, consVars, now>>

EndpointInit ==
    /\ RegistryNew /\ EndpointNew /\ OrchestratorNew /\ ConsensusNew /\ WireNew
    /\ now = 0

EndpointNext ==
    \/ Start
    \/ Stop
    \/ \E r \in Recipients, t \in Timeouts : SendRequest(r, "m1", t)
    \/ \E id \in DOMAIN call, ok \in BOOLEAN : SendRequestPosted(id, ok)
    \/ \E id \in DOMAIN call : WaitForTimeout(id)
    \/ \E id \in DOMAIN call : SendRequestTimeout(id)
    \/ \E id \in DOMAIN call : SendRequestReturn(id)
    \/ \E response \in IncomingResponses : HandleResponse(response)
    \/ Tick

EndpointSpec == EndpointInit /\ [][EndpointNext]_vars

\* the serving side of the endpoint: handlers and incoming requests
HandlerNext ==
    \/ Start
    \/ Stop
    \/ \E m \in Methods, k \in HandlerKinds : RegisterHandler(m, k)
    \/ \E request \in IncomingRequests : HandleRequest(request)

HandlerSpec == EndpointInit /\ [][HandlerNext]_vars

(***************************************************************************)
(* MCPProtocol: notifications                                              *)
(***************************************************************************)
Events == {"e1", "e2"}
Callbacks == {"ok1", "ok2", "bad"}      \* "bad" raises whenever it is called
NotificationData == {"d1", "d2"}

\* NotificationMessage as parsed by _parse_message
IncomingNotifications ==
    { [type |-> "notification", sender |-> s, event |-> e, data |-> d] :
        s \in AgentNames, e \in Events, d \in NotificationData }

\* self.subscribers.get(event, [])
SubscribersOf(event) ==
    IF event \in DOMAIN subscribers THEN subscribers[event] ELSE <<>>

\* a variant of the delivery loop without the try: the first subscriber that
\* raises ends the loop
RECURSIVE DeliverUntilRaise(_, _)
DeliverUntilRaise(subs, data) ==
    IF subs = <<>> THEN <<>>
    ELSE LET c == [callback |-> Head(subs), data |-> data,
                   raised |-> Head(subs) = "bad"]
         IN  IF c.raised THEN <<c>>
             ELSE <<c>> \o DeliverUntilRaise(Tail(subs), data)

\* the loop of _handle_notification: await subscriber(notification.data) for
\* each subscriber in turn, an exception being caught and logged
RECURSIVE Deliver(_, _)
Deliver(subs, data) ==
    IF subs = <<>> THEN <<>>
    ELSE << [callback |-> Head(subs), data |-> data, raised |-> Head(subs) = "bad"] >>
         \o Deliver(Tail(subs), data)

\* subscribe(event, callback)
Subscribe(event, callback) ==
    /\ Len(SubscribersOf("e1")) + Len(SubscribersOf("e2")) < MaxSubscriptions
    /\ subscribers' = DictPut(subscribers, event, Append(SubscribersOf(event), callback))
    /\ UNCHANGED <<delivered, sendLog, hashes, selfAddr, moreVars, lifecycle,
                   regVars, epVars, orchVars, consVars, now>>

\* _handle_notification(notification)
HandleNotification(notification) ==
    /\ delivered' = [notification |-> notification,
                     calls |-> Deliver(SubscribersOf(notification.event),
                                       notification.data)]
    /\ UNCHANGED <<subscribers, sendLog, hashes, selfAddr, moreVars, lifecycle,
                   regVars, epVars, orchVars, consVars, now>>

NotifyNext ==
    \/ \E e \in Events, c \in Callbacks : Subscribe(e, c)
    \/ \E n \in IncomingNotifications : HandleNotification(n)

NotifySpec == EndpointInit /\ [][NotifyNext]_vars

(***************************************************************************)
(* MCPProtocol: the inbound path                                           *)
(***************************************************************************)
MessageTypes == {"request", "response", "notification", "error"}   \* MessageType

\* ErrorMessage envelopes other endpoints may post
IncomingErrors ==
    { [type |-> "error", sender |-> s, error_code |-> "E1", error_message |-> "failed"] :
        s \in AgentNames }

\* a dict without one of its keys
WithoutKey(d, k) == [f \in DOMAIN d \ {k} |-> d[f]]

\* the fields without a default that the message class of a kind declares
RequiredFields(message_type) ==
    CASE message_type = "request" -> {"sender", "method"}
      [] message_type = "response" -> {"request_id"}
      [] message_type = "notification" -> {"sender", "event"}
      [] message_type = "error" -> {"sender", "error_code", "error_message"}

\* the envelopes of each kind that construct a message
WellFormed ==
    { m \in IncomingRequests :
         m.id = 901 /\ m.sender = "a1" /\ m.recipient = SelfName /\ m.method = "m1" }
       \cup { r \in IncomingResponses : r.correlation_id = r.request_id }
       \cup { n \in IncomingNotifications :
                 n.sender = "a1" /\ n.event = "e1" /\ n.data = "d1" }
       \cup { e \in IncomingErrors : e.sender = "a1" }

\* the raw JSON objects a peer may post: well-formed envelopes, the same with
\* an unknown discriminator, without the discriminator, or without a
\* required field
RawEnvelopes ==
    WellFormed
       \cup { [m EXCEPT !.type = "bogus"] : m \in WellFormed }
       \cup { WithoutKey(m, "type") : m \in WellFormed }
       \cup { WithoutKey(m, CHOOSE f \in RequiredFields(m.type) : TRUE) : m \in WellFormed }

\* data.get("type")
TypeOf(data) == IF "type" \in DOMAIN data THEN data.type ELSE None

\* a variant of _parse_message that guesses the kind of an envelope without
\* a known discriminator from the fields it carries
ParseMessageGuessing(data) ==
    LET message_type ==
           IF TypeOf(data) \in MessageTypes THEN TypeOf(data)
           ELSE IF "method" \in DOMAIN data THEN "request"
           ELSE IF "request_id" \in DOMAIN data THEN "response"
           ELSE IF "event" \in DOMAIN data THEN "notification"
           ELSE "error"
    IN  IF RequiredFields(message_type) \subseteq DOMAIN data
        THEN [f \in DOMAIN data \cup {"type"} |->
                 IF f = "type" THEN message_type ELSE data[f]]
        ELSE NoMessage

\* _parse_message(data): the message of the class the discriminator names,
\* None (NoMessage) for an unknown or missing discriminator or when the
\* class rejects the fields
ParseMessage(data) ==
    LET message_type == TypeOf(data)
    IN  IF message_type \in MessageTypes
        THEN IF RequiredFields(message_type) \subseteq DOMAIN data
             THEN data
             ELSE NoMessage
        ELSE NoMessage

\* _handle_incoming_message(request): parse, then either _process_message
\* and the reply 200, or the reply 400
HandleIncomingMessage(data) ==
    LET message == ParseMessage(data)
    IN  /\ received' = [data |-> data, message |-> message,
                        status |-> IF message # NoMessage THEN "200" ELSE "400"]
        /\ CASE message = NoMessage ->
                  UNCHANGED <<handled, posted, pending_requests, removals, future,
                              delivered>>
             [] message.type = "request" ->
                  \* _handle_request
                  /\ handled' = [request |-> message,
                                 response |-> HandlerResponse(message)]
                  /\ posted' = SendMessagePost(HandlerResponse(message), None)
                  /\ UNCHANGED <<pending_requests, removals, future, delivered>>
             [] message.type = "response" ->
                  \* _handle_response
                  LET key == ResponseKey(message)
                  IN  /\ pending_requests' = PendingPop(pending_requests, key)
                      /\ removals' = CountPop(key)
                      /\ IF key \in pending_requests /\ future[key].state = "pending"
                         THEN future' = [future EXCEPT
                                           ![key] = [state |-> "done", result |-> message]]
                         ELSE UNCHANGED future
                      /\ UNCHANGED <<handled, posted, delivered>>
             [] message.type = "notification" ->
                  \* _handle_notification
                  /\ delivered' = [notification |-> message,
                                   calls |-> Deliver(SubscribersOf(message.event),
                                                     message.data)]
                  /\ UNCHANGED <<handled, posted, pending_requests, removals, future>>
             [] message.type = "error" ->
                  \* _handle_error only logs
                  UNCHANGED <<handled, posted, pending_requests, removals, future,
                              delivered>>
        /\ UNCHANGED <<is_connected, session, message_handlers, call, nextId,
                       subscribers, sendLog, hashes, selfAddr, suspended, timers, baseAgents,
                       lifecycle, regVars, orchVars, consVars, now>>

\* an endpoint with handlers, subscribers and pending requests that peers
\* post raw envelopes to
IncomingNext ==
    \/ Start
    \/ RegisterHandler("m1", "returns")
    \/ Subscribe("e1", "ok1")
    \/ \E r \in Recipients : nextId = 1 /\ SendRequest(r, "m1", 100)
    \/ \E id \in DOMAIN call : SendRequestPosted(id, TRUE)
    \/ \E data \in RawEnvelopes : HandleIncomingMessage(data)

IncomingSpec == EndpointInit /\ [][IncomingNext]_vars

(***************************************************************************)
(* MCPProtocol: incoming messages handled concurrently                     *)
(***************************************************************************)
\* the server runs each _handle_incoming_message call in a task of its own;
\* a task is suspended while the handler or subscriber it awaits runs
TaskIds == 1..MaxTasks
FreeTask == CHOOSE i \in TaskIds : i \notin DOMAIN suspended

\* does handling the message reach an await of user code: a request with a
\* registered handler, a notification with a subscriber
Suspends(message) ==
    /\ message # NoMessage
    /\ \/ message.type = "request" /\ message.method \in DOMAIN message_handlers
       \/ message.type = "notification" /\ SubscribersOf(message.event) # <<>>

\* _handle_incoming_message up to `await handler(request.params)` or to the
\* first `await subscriber(notification.data)`
Suspend(data) ==
    LET message == ParseMessage(data)
    IN  /\ Cardinality(DOMAIN suspended) < MaxTasks
        /\ received' = [data |-> data, message |-> message, status |-> "none"]
        /\ suspended' = DictPut(suspended, FreeTask,
                                [message |-> message, at |-> 1, calls |-> <<>>])
        /\ UNCHANGED <<timers, baseAgents, subscribers, delivered, sendLog, hashes,
                       selfAddr, lifecycle, regVars, epVars, orchVars, consVars, now>>

\* a variant of the server that takes the next message only when no task is
\* suspended
AcceptMessageInTurn(data) ==
    /\ suspended = <<>>
    /\ IF Suspends(ParseMessage(data)) THEN Suspend(data)
       ELSE HandleIncomingMessage(data)

\* the server takes a posted message whatever the tasks in flight do: the
\* task runs to its first await of user code, or to its reply when there is
\* none
AcceptMessage(data) ==
    IF Suspends(ParseMessage(data)) THEN Suspend(data)
    ELSE HandleIncomingMessage(data)

\* _handle_request from the return of the handler on: build the response,
\* send it
HandlerReturns(t) ==
    /\ t \in DOMAIN suspended
    /\ suspended[t].message.type = "request"
    /\ handled' = [request |-> suspended[t].message,
                   response |-> HandlerResponse(suspended[t].message)]
    /\ posted' = SendMessagePost(HandlerResponse(suspended[t].message), None)
    /\ suspended' = DictDel(suspended, t)
    /\ UNCHANGED <<is_connected, session, message_handlers, pending_requests,
                   future, call, nextId, removals, received, timers, baseAgents,
                   subscribers, delivered, sendLog, hashes, selfAddr, lifecycle,
                   regVars, orchVars, consVars, now>>

\* _handle_notification from the return (or the exception) of a subscriber
\* on: the loop goes to the next subscriber of the list, or ends
SubscriberReturns(t) ==
    /\ t \in DOMAIN suspended
    /\ suspended[t].message.type = "notification"
    /\ LET task == suspended[t]
           subs == SubscribersOf(task.message.event)
           calls == Append(task.calls,
                           [callback |-> subs[task.at], data |-> task.message.data,
                            raised |-> subs[task.at] = "bad"])
       IN  IF task.at < Len(subs)
           THEN /\ suspended' = [suspended EXCEPT ![t].at = @ + 1, ![t].calls = calls]
                /\ UNCHANGED delivered
           ELSE /\ suspended' = DictDel(suspended, t)
                /\ delivered' = [notification |-> task.message, calls |-> calls]
    /\ UNCHANGED <<received, timers, baseAgents, subscribers, sendLog, hashes,
                   selfAddr, lifecycle, regVars, epVars, orchVars, consVars, now>>

\* an endpoint with a handler, subscribers and a pending request, whose
\* peers post messages while earlier ones are still being handled
ConcurrentNext ==
    \/ Start
    \/ RegisterHandler("m1", "returns")
    \/ Subscribe("e1", "ok1")
    \/ \E r \in Recipients : nextId = 1 /\ SendRequest(r, "m1", 100)
    \/ \E id \in DOMAIN call : SendRequestPosted(id, TRUE)
    \/ \E data \in WellFormed : AcceptMessage(data)
    \/ \E t \in TaskIds : HandlerReturns(t)
    \/ \E t \in TaskIds : SubscriberReturns(t)

ConcurrentSpec == EndpointInit /\ [][ConcurrentNext]_vars

\* the response a peer posts for request id
ResponseFor(id) == [type |-> "response", request_id |-> id, correlation_id |-> id]

\* C37: handler invocation and notification fan-out do not block the accept
\* path. While tasks are suspended in a handler or a subscriber, the
\* endpoint still takes an unrelated message: a response for a pending
\* request can be handled at once and resolves the future, and an error
\* message can be handled, both without any suspended task moving
C37_AcceptPathNotBlocked ==
    suspended # <<>> =>
       /\ \A id \in pending_requests :
             future[id].state = "pending" =>
                ENABLED (/\ AcceptMessage(ResponseFor(id))
                         /\ future'[id] = [state |-> "done", result |-> ResponseFor(id)]
                         /\ id \notin pending_requests'
                         /\ suspended' = suspended)
       /\ \A e \in IncomingErrors :
             ENABLED (AcceptMessage(e) /\ received'.status = "200"
                                       /\ suspended' = suspended)

\* a response was the last message taken, it resolved the future of its
\* request, and the tasks accepted before it are still suspended, one in a
\* handler and one in a subscriber
C37_Witness ==
    /\ \E t \in DOMAIN suspended : suspended[t].message.type = "request"
    /\ \E t \in DOMAIN suspended : suspended[t].message.type = "notification"
    /\ received.message # NoMessage
    /\ received.message.type = "response"
    /\ received.message.request_id \in DOMAIN future
    /\ future[received.message.request_id] =
          [state |-> "done", result |-> received.message]
    /\ removals[received.message.request_id] = [removed |-> 1, noop |-> FALSE]

(***************************************************************************)
(* BaseAgent: start and stop (agent_factory.py)                            *)
(***************************************************************************)
Outcomes == {"returns", "raises"}    \* what initialize() / _cleanup() of a subclass does

\* the count of runs, which saturates at MaxRuns
CountedRun(n) == IF n < MaxRuns THEN n + 1 ELSE n

\* get_logger("agent.base"), the logger given to handle_exception: without
\* an agent name it is a plain logging.Logger, which has no error_operation
WrapperLoggerHasErrorOperation == FALSE

\* handle_exception's async_wrapper around start and stop: what leaves the
\* call when the wrapped coroutine raises exc. Both except clauses call
\* logger.error_operation first, and the exception of that call replaces
\* the one being handled
HandleException(exc) ==
    IF exc = "None" THEN "None"
    ELSE IF ~WrapperLoggerHasErrorOperation THEN "AttributeError"
    ELSE exc

\* await agent.start()
AgentStart(name, outcome) ==
    LET a == baseAgents[name]
    IN  /\ baseAgents' =
              [baseAgents EXCEPT ![name] =
                 IF a.is_running
                 THEN [a EXCEPT !.last = [op |-> "start", ran |-> FALSE,
                                          raised |-> HandleException("None")]]
                 ELSE IF outcome = "returns"
                 THEN [a EXCEPT !.is_running = TRUE,
                                !.inits = CountedRun(@),
                                !.last = [op |-> "start", ran |-> TRUE,
                                          raised |-> HandleException("None")]]
                 ELSE [a EXCEPT !.inits = CountedRun(@),
                                !.last = [op |-> "start", ran |-> TRUE,
                                          raised |-> HandleException("AgentStartupError")]]]
        /\ UNCHANGED <<received, suspended, timers, subscribers, delivered, sendLog, hashes,
                       selfAddr, lifecycle, regVars, epVars, orchVars, consVars, now>>

\* await agent.stop()
AgentStop(name, outcome) ==
    LET a == baseAgents[name]
    IN  /\ baseAgents' =
              [baseAgents EXCEPT ![name] =
                 IF ~a.is_running
                 THEN [a EXCEPT !.last = [op |-> "stop", ran |-> FALSE,
                                          raised |-> HandleException("None")]]
                 ELSE IF outcome = "returns"
                 THEN [a EXCEPT !.is_running = FALSE,
                                !.cleanups = CountedRun(@),
                                !.last = [op |-> "stop", ran |-> TRUE,
                                          raised |-> HandleException("None")]]
                 ELSE [a EXCEPT !.is_running = FALSE,
                                !.cleanups = CountedRun(@),
                                !.last = [op |-> "stop", ran |-> TRUE,
                                          raised |-> HandleException("AgentError")]]]
        /\ UNCHANGED <<received, suspended, timers, subscribers, delivered, sendLog, hashes,
                       selfAddr, lifecycle, regVars, epVars, orchVars, consVars, now>>

AgentNext ==
    \/ \E n \in AgentNames, o \in Outcomes : AgentStart(n, o)
    \/ \E n \in AgentNames, o \in Outcomes : AgentStop(n, o)

AgentSpec == EndpointInit /\ [][AgentNext]_vars

(***************************************************************************)
(* MCPProtocol: send_message                                               *)
(***************************************************************************)
HashValues == {1, 2}                 \* values hash(agent_name) % 1000 may take
SelfPorts == {8000, DefaultPort}     \* port arguments of MCPProtocol(...)
\* what happens inside send_message once the endpoint is connected: the POST
\* answers 200, answers another status, raises, or model_dump raises
SendOutcomes == {"200", "500", "post raises", "dump raises"}

\* _get_agent_endpoint(agent_name):
\* f"http://{self.host}:{self.port + hash(agent_name) % 1000}"
GetAgentEndpoint(agent_name) ==
    [host |-> selfAddr.host, port |-> selfAddr.port + hashes[agent_name],
     protocol |-> "http"]

\* a variant of send_message that reports any HTTP answer as success
SendMessageReturnsAnyStatus(outcome) == outcome \in {"200", "500"}

\* the value send_message returns on a connected endpoint: True only when
\* response.status == 200
SendMessageReturns(outcome) == outcome = "200"

\* send_message(message, target_agent), called directly
SendMessage(message, target_agent, outcome) ==
    LET target == IF target_agent # None THEN target_agent ELSE message.recipient
    IN  /\ posted' = IF outcome = "dump raises" THEN posted
                     ELSE SendMessagePost(message, target_agent)
        /\ sendLog' =
              IF ~is_connected
              THEN [sent |-> TRUE, connected |-> FALSE, target |-> target,
                    url |-> None, outcome |-> None, calls |-> 0, ret |-> FALSE,
                    raised |-> FALSE]
              ELSE [sent |-> TRUE, connected |-> TRUE, target |-> target,
                    url |-> GetAgentEndpoint(target), outcome |-> outcome,
                    calls |-> IF outcome = "dump raises" THEN 0 ELSE 1,
                    ret |-> SendMessageReturns(outcome),
                    raised |-> FALSE]
        /\ UNCHANGED <<subscribers, delivered, hashes, selfAddr, moreVars, lifecycle,
                       is_connected, session, message_handlers, pending_requests,
                       future, call, nextId, removals, handled,
                       regVars, orchVars, consVars, now>>

\* the envelopes a caller may hand to send_message
OutgoingMessages ==
    { [type |-> "notification", sender |-> SelfName, recipient |-> r, event |-> e] :
        r \in AgentNames, e \in Events }

\* an endpoint created on some port, in a process with some string hashes,
\* next to an empty registry
SendInit ==
    /\ RegistryNew /\ EndpointNew /\ OrchestratorNew /\ ConsensusNew /\ now = 0
    /\ subscribers = <<>>
    /\ delivered = NoDelivery
    /\ sendLog = NoSend
    /\ hashes \in [AgentNames -> HashValues]
    /\ selfAddr \in [host : {"localhost"}, port : SelfPorts]
    /\ lifecycle = [op |-> "init", noop |-> FALSE, opens |-> 0, closes |-> 0]
    /\ MoreNew

SendNext ==
    \/ Start
    \/ Stop
    \/ \E n \in AgentNames, ep \in ServiceEndpoints :
          RegisterAgent(n, "worker", <<"c1">>, ep)
    \/ \E m \in OutgoingMessages, t \in {None} \cup AgentNames, o \in SendOutcomes :
          SendMessage(m, t, o)

SendSpec == SendInit /\ [][SendNext]_vars

(***************************************************************************)
(* AgentOrchestrator                                                       *)
(***************************************************************************)
StepAgentNames == {"a1", "ghost"}     \* "ghost" is never created by the factory
StepMethods == {"m1", "m2"}
FactoryOrder == <<"a1", "a2">>        \* insertion order of agent_factory.agents
FailureKinds == {"AgentError", "ValidationError"}

\* the factories a run may start with: a1 advertises m1, a2 advertises m1 and
\* m2, and each is running or stopped
Factories ==
    { [n \in {"a1", "a2"} |->
         [capabilities |-> IF n = "a1" THEN {"m1"} ELSE {"m1", "m2"},
          is_running |-> IF n = "a1" THEN r1 ELSE r2]] : r1, r2 \in BOOLEAN }

\* the ConversationStep values a list of steps may hold
ConversationSteps ==
    [agent_name : StepAgentNames, method : StepMethods,
     depends_on : SUBSET StepAgentNames, max_retries : 0..MaxRetries,
     can_delegate : BOOLEAN]

\* agent_factory.get_agent(name)
GetAgent(name) == IF name \in DOMAIN factory THEN name ELSE None

\* _find_delegate(method): the first agent of the factory that has the
\* capability and is running
RECURSIVE FindDelegateFrom(_, _)
FindDelegateFrom(order, method) ==
    IF order = <<>> THEN None
    ELSE IF /\ Head(order) \in DOMAIN factory
            /\ method \in factory[Head(order)].capabilities
            /\ factory[Head(order)].is_running
         THEN Head(order)
         ELSE FindDelegateFrom(Tail(order), method)

\* a variant of _find_delegate that takes the first agent with the
\* capability, running or not
FindDelegateIgnoringRunning(method) ==
    LET able == { i \in DOMAIN FactoryOrder :
                     /\ FactoryOrder[i] \in DOMAIN factory
                     /\ method \in factory[FactoryOrder[i]].capabilities }
    IN  IF able = {} THEN None
        ELSE FactoryOrder[CHOOSE i \in able : \A j \in able : i <= j]

FindDelegate(method) == FindDelegateFrom(FactoryOrder, method)

\* a variant of the agent lookup that delegates whatever can_delegate says
ResolveAgentAlwaysDelegates(st, att) ==
    IF GetAgent(st.agent_name) # None THEN GetAgent(st.agent_name)
    ELSE IF att < st.max_retries THEN FindDelegate(st.method) ELSE None

\* a variant of the agent lookup that never delegates
ResolveAgentNoDelegate(st, att) == GetAgent(st.agent_name)

\* the agent an attempt of _execute_step_with_recovery ends up with
ResolveAgent(st, att) ==
    IF GetAgent(st.agent_name) # None THEN GetAgent(st.agent_name)
    ELSE IF st.can_delegate /\ att < st.max_retries
         THEN FindDelegate(st.method)
         ELSE None

\* a variant of the dependency test that lets every step through
DependenciesIgnored(deps, res) == TRUE

\* _wait_for_dependencies: all(dep in results for dep in deps)
DependenciesMet(deps, res) == \A dep \in deps : dep \in DOMAIN res

\* a variant of the except branch that gives the step up after the last
\* allowed attempt and lets the loop go on to the next step
AttemptFailedSkipsStep(cause) ==
    /\ lastFailure' = cause
    /\ failures' = failures + 1
    /\ opc' = IF attempt = step.max_retries THEN "next" ELSE "backoff"
    /\ UNCHANGED oerr

\* the except branch of _execute_step_with_recovery: raise on the last
\* allowed attempt, otherwise sleep before the next one
AttemptFailed(cause) ==
    /\ lastFailure' = cause
    /\ failures' = failures + 1
    /\ IF attempt = step.max_retries
       THEN /\ opc' = "raised"
            /\ oerr' = [type |-> "WorkflowError", method |-> step.method,
                        cited |-> step.max_retries, unit |-> "retries",
                        cause |-> cause]
       ELSE /\ opc' = "backoff"
            /\ UNCHANGED oerr

\* a variant of the try branch that goes round the loop again after a
\* successful execute_task while attempts remain
AfterSuccessRetries(st, att) == IF att < st.max_retries THEN "backoff" ELSE "next"

\* the try branch of _execute_step_with_recovery: return result leaves the
\* loop, and execute_conversation goes on to the next step
AfterSuccess(st, att) == "next"

\* execute_conversation(workflow_id, steps) is called: results = {}
ExecuteConversation ==
    /\ opc = "idle"
    /\ opc' = "next"
    /\ results' = <<>>
    /\ UNCHANGED <<factory, step, stepIdx, attempt, invocations, polls, lastTask,
                   oerr, lastFailure, failures, successes,
                   regVars, epVars, consVars, wireVars, lifecycle, now>>

\* the for loop takes the next step of the list: it waits for the step's
\* dependencies if it has any, then starts attempt 0
NextStep(st) ==
    /\ opc = "next"
    /\ stepIdx < MaxSteps
    /\ stepIdx' = stepIdx + 1
    /\ step' = st
    /\ attempt' = 0
    /\ invocations' = 0
    /\ polls' = 0
    /\ lastTask' = NoTask
    /\ opc' = IF st.depends_on # {} /\ ~DependenciesMet(st.depends_on, results)
              THEN "waiting" ELSE "attempt"
    /\ lastFailure' = None
    /\ failures' = 0
    /\ successes' = 0
    /\ UNCHANGED <<factory, results, oerr,
                   regVars, epVars, consVars, wireVars, lifecycle, now>>

\* _wait_for_dependencies: asyncio.sleep(0.1) returns and the loop tests the
\* dependencies again
WaitPoll ==
    /\ opc = "waiting"
    /\ polls' = IF polls < MaxPolls THEN polls + 1 ELSE polls
    /\ opc' = IF DependenciesMet(step.depends_on, results) THEN "attempt" ELSE "waiting"
    /\ UNCHANGED <<factory, results, step, stepIdx, attempt, invocations, lastTask,
                   oerr, lastFailure, failures, successes,
                   regVars, epVars, consVars, wireVars, lifecycle, now>>

\* one iteration of the retry loop up to execute_task: resolve the agent,
\* delegate if it is absent, fail the attempt if there is still none
Attempt ==
    /\ opc = "attempt"
    /\ LET agent == ResolveAgent(step, attempt)
       IN  IF agent = None
           THEN /\ AttemptFailed("agent not found")
                /\ UNCHANGED <<invocations, lastTask>>
           ELSE /\ opc' = "executing"
                /\ invocations' = invocations + 1
                /\ lastTask' = [agent |-> agent, method |-> step.method,
                                context |-> results]
                /\ UNCHANGED <<oerr, lastFailure, failures>>
    /\ UNCHANGED <<factory, results, step, stepIdx, attempt, polls, successes,
                   regVars, epVars, consVars, wireVars, lifecycle, now>>

\* agent.execute_task returns: the step's result is stored under its agent name
ExecuteTaskReturns ==
    /\ opc = "executing"
    /\ results' = DictPut(results, step.agent_name,
                          [by |-> lastTask.agent, method |-> step.method])
    /\ opc' = AfterSuccess(step, attempt)
    /\ successes' = successes + 1
    /\ UNCHANGED <<factory, step, stepIdx, attempt, invocations, polls, lastTask,
                   oerr, lastFailure, failures,
                   regVars, epVars, consVars, wireVars, lifecycle, now>>

\* agent.execute_task raises
ExecuteTaskRaises(kind) ==
    /\ opc = "executing"
    /\ AttemptFailed(kind)
    /\ UNCHANGED <<factory, results, step, stepIdx, attempt, invocations, polls,
                   lastTask, successes, regVars, epVars, consVars, wireVars, lifecycle, now>>

\* asyncio.sleep(1.0 * (attempt + 1)) returns: next iteration of the loop
Backoff ==
    /\ opc = "backoff"
    /\ attempt' = attempt + 1
    /\ opc' = "attempt"
    /\ UNCHANGED <<factory, results, step, stepIdx, invocations, polls, lastTask,
                   oerr, lastFailure, failures, successes,
                   regVars, epVars, consVars, wireVars, lifecycle, now>>

\* the list of steps is exhausted: return results
ReturnResults ==
    /\ opc = "next"
    /\ opc' = "returned"
    /\ UNCHANGED <<factory, results, step, stepIdx, attempt, invocations, polls,
                   lastTask, oerr, lastFailure, failures, successes,
                   regVars, epVars, consVars, wireVars, lifecycle, now>>

\* a run of execute_conversation on any of the factories; the steps of the
\* list are drawn when the for loop reaches them
OrchInit ==
    /\ RegistryNew /\ EndpointNew /\ ConsensusNew /\ WireNew /\ now = 0
    /\ factory \in Factories
    /\ results = <<>>
    /\ step = NoStep
    /\ stepIdx = 0
    /\ attempt = 0
    /\ opc = "idle"
    /\ invocations = 0
    /\ polls = 0
    /\ lastTask = NoTask
    /\ oerr = None
    /\ lastFailure = None
    /\ failures = 0
    /\ successes = 0

OrchNext ==
    \/ ExecuteConversation
    \/ \E st \in ConversationSteps : NextStep(st)
    \/ WaitPoll
    \/ Attempt
    \/ ExecuteTaskReturns
    \/ \E kind \in FailureKinds : ExecuteTaskRaises(kind)
    \/ Backoff
    \/ ReturnResults

OrchSpec == OrchInit /\ [][OrchNext]_vars

\* AgentFactory.create_agent(name, agent_type, config): the agent is put in
\* self.agents and then started; it is running unless its start failed
CreateAgent(name, caps, started) ==
    /\ name \notin DOMAIN factory
    /\ factory' = DictPut(factory, name, [capabilities |-> caps, is_running |-> started])
    /\ UNCHANGED <<results, step, stepIdx, attempt, opc, invocations, polls,
                   lastTask, oerr, lastFailure, failures, successes,
                   regVars, epVars, consVars, wireVars, lifecycle, now>>

\* agent.stop() of a running agent of the factory
StopAgent(name) ==
    /\ name \in DOMAIN factory
    /\ factory[name].is_running
    /\ factory' = [factory EXCEPT ![name].is_running = FALSE]
    /\ UNCHANGED <<results, step, stepIdx, attempt, opc, invocations, polls,
                   lastTask, oerr, lastFailure, failures, successes,
                   regVars, epVars, consVars, wireVars, lifecycle, now>>

\* execute_conversation on a factory whose agents are created and stopped
\* while the conversation runs
DelegationNext ==
    \/ OrchNext
    \/ \E started \in BOOLEAN : CreateAgent("ghost", {"m2"}, started)
    \/ \E n \in {"a1", "a2"} : StopAgent(n)

DelegationSpec == OrchInit /\ [][DelegationNext]_vars

\* the event loop keeps running the coroutine: every sleep returns and every
\* execute_task call completes
OrchFairSpec == OrchSpec /\ WF_vars(OrchNext)

(***************************************************************************)
(* AgentOrchestrator.resolve_consensus                                     *)
(***************************************************************************)
ConsensusAgents == {"a1", "a2", "a3"}     \* the agents the factory has
ParticipantNames == ConsensusAgents \cup {"ghost"}
ConsensusTypes == {"majority", "unanimous", "weighted"}
Votes == {"approve", "reject"}
\* what execute_task of an agent does with a consensus_vote task: it returns
\* a response in time, never returns, or raises
Behaviours == {"responds", "silent", "raises"}

\* the agents lists a request may carry: no name twice
ParticipantLists ==
    { l \in UNION { [1..n -> ParticipantNames] : n \in 0..MaxParticipants } :
         \A i, j \in DOMAIN l : i # j => l[i] # l[j] }

\* ConsensusRequest(question, agents, consensus_type, timeout)
ConsensusRequests ==
    [agents : ParticipantLists, consensus_type : ConsensusTypes, timeout : Timeouts]

\* votes = [r.get("vote") for r in responses.values() if r.get("vote")]
CountedVotes(responses) ==
    LET counted == SelectSeq(responses, LAMBDA r : r.vote # "")
    IN  [i \in DOMAIN counted |-> counted[i].vote]

\* votes.count(v)
VoteCount(v, votes) == Cardinality({ i \in DOMAIN votes : votes[i] = v })

\* dict(Counter(votes))
VoteCounts(votes) == [v \in Range(votes) |-> VoteCount(v, votes)]

\* Counter(votes).most_common(1)[0][0]: the most frequent vote, the one seen
\* first among equals
MostCommon(votes) ==
    LET top == { v \in Range(votes) :
                    \A w \in Range(votes) : VoteCount(w, votes) <= VoteCount(v, votes) }
        first(v) == CHOOSE i \in DOMAIN votes :
                       votes[i] = v /\ \A j \in DOMAIN votes : votes[j] = v => i <= j
    IN  CHOOSE v \in top : \A w \in top : first(v) <= first(w)

\* a variant of the majority test that accepts exactly half of the votes
MajorityReachedAtHalf(count, n) == 2 * count >= n

\* consensus_reached = winner[1] > len(votes) / 2
MajorityReached(count, n) == 2 * count > n

\* a variant of the unanimity test that takes the first vote as everyone's
UnanimousVoteFirst(votes) == votes[1]

\* unanimous_vote = votes[0] if all(v == votes[0] for v in votes) else None
UnanimousVote(votes) ==
    IF \A i \in DOMAIN votes : votes[i] = votes[1] THEN votes[1] ELSE None

\* a variant of _calculate_consensus that reports the most common vote as
\* the result whether or not it has the majority
CalculateConsensusKeepsWinner(responses, consensus_type) ==
    LET votes == CountedVotes(responses)
    IN  IF consensus_type = "majority"
        THEN IF Len(votes) = 0
             THEN [consensus |-> FALSE, result |-> None]
             ELSE LET winner == MostCommon(votes)
                      consensus_reached ==
                         MajorityReached(VoteCount(winner, votes), Len(votes))
                  IN  [consensus |-> consensus_reached,
                       result |-> winner,
                       votes |-> VoteCounts(votes)]
        ELSE IF consensus_type = "unanimous"
        THEN IF Len(votes) = 0
             THEN [consensus |-> FALSE, result |-> None]
             ELSE LET unanimous_vote == UnanimousVote(votes)
                  IN  [consensus |-> unanimous_vote # None,
                       result |-> unanimous_vote,
                       votes |-> VoteCounts(votes)]
        ELSE [consensus |-> FALSE, result |-> None]

\* _calculate_consensus(responses, consensus_type)
CalculateConsensus(responses, consensus_type) ==
    LET votes == CountedVotes(responses)
    IN  IF consensus_type = "majority"
        THEN IF Len(votes) = 0
             THEN [consensus |-> FALSE, result |-> None]
             ELSE LET winner == MostCommon(votes)
                      consensus_reached ==
                         MajorityReached(VoteCount(winner, votes), Len(votes))
                  IN  [consensus |-> consensus_reached,
                       result |-> IF consensus_reached THEN winner ELSE None,
                       votes |-> VoteCounts(votes)]
        ELSE IF consensus_type = "unanimous"
        THEN IF Len(votes) = 0
             THEN [consensus |-> FALSE, result |-> None]
             ELSE LET unanimous_vote == UnanimousVote(votes)
                  IN  [consensus |-> unanimous_vote # None,
                       result |-> unanimous_vote,
                       votes |-> VoteCounts(votes)]
        ELSE [consensus |-> FALSE, result |-> None]

\* the second loop of resolve_consensus moves on from tasks[cIdx]: it awaits
\* the next task, or the loop is done and the verdict is returned
AwaitNext(responses) ==
    IF cIdx < Len(cTasks)
    THEN /\ cIdx' = cIdx + 1
         /\ cWaitStart' = now'
         /\ cpc' = "awaiting"
         /\ UNCHANGED verdict
    ELSE /\ cpc' = "returned"
         /\ verdict' = CalculateConsensus(responses, cRequest.consensus_type)
         /\ UNCHANGED <<cIdx, cWaitStart>>

\* resolve_consensus(request) is called: one execute_task coroutine is built
\* for each listed agent the factory knows, then the first one is awaited
ResolveConsensus(request) ==
    /\ cpc = "idle"
    /\ cRequest' = request
    /\ cTasks' = SelectSeq(request.agents, LAMBDA a : a \in DOMAIN behaviour)
    /\ cResponses' = <<>>
    /\ cStart' = now
    /\ IF cTasks' # <<>>
       THEN /\ cIdx' = 1
            /\ cWaitStart' = now
            /\ cpc' = "awaiting"
            /\ UNCHANGED verdict
       ELSE /\ cpc' = "returned"
            /\ verdict' = CalculateConsensus(<<>>, request.consensus_type)
            /\ UNCHANGED <<cIdx, cWaitStart>>
    /\ UNCHANGED <<behaviour, cerr, regVars, epVars, orchVars, wireVars, lifecycle, now>>

\* the awaited execute_task has not finished yet and wait_for's timer has
\* not expired: time passes
ConsensusTick ==
    /\ cpc = "awaiting"
    /\ behaviour[cTasks[cIdx]] # "silent"
    /\ now + TickSeconds < cWaitStart + cRequest.timeout
    /\ now' = now + TickSeconds
    /\ UNCHANGED <<consVars, regVars, epVars, orchVars, wireVars, lifecycle>>

\* the awaited execute_task returns before wait_for's timer expires:
\* responses[agent_name] = response
AgentResponds(vote) ==
    /\ cpc = "awaiting"
    /\ behaviour[cTasks[cIdx]] = "responds"
    /\ now < cWaitStart + cRequest.timeout
    /\ cResponses' = Append(cResponses, [agent |-> cTasks[cIdx], vote |-> vote])
    /\ now' = now
    /\ AwaitNext(cResponses')
    /\ UNCHANGED <<behaviour, cRequest, cTasks, cStart, cerr,
                   regVars, epVars, orchVars, wireVars, lifecycle>>

\* the awaited execute_task raises: wait_for passes the exception on, the
\* except clause does not match it, and it leaves resolve_consensus
AgentRaises ==
    /\ cpc = "awaiting"
    /\ behaviour[cTasks[cIdx]] = "raises"
    /\ now < cWaitStart + cRequest.timeout
    /\ cpc' = "raised"
    /\ cerr' = [type |-> "AgentError", agent |-> cTasks[cIdx]]
    /\ UNCHANGED <<behaviour, cRequest, cTasks, cIdx, cResponses, cStart,
                   cWaitStart, verdict, regVars, epVars, orchVars, wireVars, lifecycle, now>>

\* wait_for's timer expires before the awaited execute_task finishes:
\* asyncio.TimeoutError ends the loop and the verdict is computed from the
\* responses collected so far
ConsensusTimeout ==
    /\ cpc = "awaiting"
    /\ behaviour[cTasks[cIdx]] = "silent"
    /\ now' = cWaitStart + cRequest.timeout
    /\ cpc' = "returned"
    /\ verdict' = CalculateConsensus(cResponses, cRequest.consensus_type)
    /\ UNCHANGED <<behaviour, cRequest, cTasks, cIdx, cResponses, cStart,
                   cWaitStart, cerr, regVars, epVars, orchVars, wireVars, lifecycle>>

\* a resolve_consensus call on a factory whose agents answer in any way
ConsensusInit ==
    /\ RegistryNew /\ EndpointNew /\ OrchestratorNew /\ WireNew /\ now = 0
    /\ behaviour \in [ConsensusAgents -> Behaviours]
    /\ cRequest = NoRequest
    /\ cTasks = <<>>
    /\ cIdx = 0
    /\ cResponses = <<>>
    /\ cpc = "idle"
    /\ cStart = 0
    /\ cWaitStart = 0
    /\ verdict = NoVerdict
    /\ cerr = None

ConsensusNext ==
    \/ \E request \in ConsensusRequests : ResolveConsensus(request)
    \/ ConsensusTick
    \/ \E vote \in Votes \cup {""} : AgentResponds(vote)
    \/ AgentRaises
    \/ ConsensusTimeout

ConsensusSpec == ConsensusInit /\ [][ConsensusNext]_vars

(***************************************************************************)
(* Registry properties                                                     *)
(***************************************************************************)

\* C1: the capability index exactly matches the agent records: agent a is in
\* bucket c if and only if a is registered and c names one of a's current
\* capabilities.
C1_IndexMatchesRecords ==
    /\ \A c \in DOMAIN capabilities_index :
          capabilities_index[c] =
             { a \in DOMAIN agents : c \in Range(agents[a].capabilities) }
    /\ \A a \in DOMAIN agents : \A c \in Range(agents[a].capabilities) :
          c \in DOMAIN capabilities_index /\ a \in capabilities_index[c]

\* C1 witness: an agent was re-registered with a different capability list
\* (a bucket it left is now empty) while another agent is registered.
C1_Witness ==
    /\ lastOp.op = "register"
    /\ Cardinality(DOMAIN agents) = 2
    /\ \E c \in DOMAIN capabilities_index : capabilities_index[c] = {}
    /\ \E c \in DOMAIN capabilities_index : capabilities_index[c] # {}

\* C2 (as claimed): the capability index never retains an empty bucket, so
\* get_all_capabilities names only capabilities some registered agent has.
C2_NoEmptyBucket ==
    \A c \in GetAllCapabilities :
        /\ capabilities_index[c] # {}
        /\ \E a \in DOMAIN agents : c \in Range(agents[a].capabilities)

\* C3: after unregister_agent(name) returns true the record and the endpoint
\* are gone, the name is in no bucket, every bucket the removal left empty is
\* deleted and exactly one agent_unregistered event was emitted.
C3_UnregisterPost ==
    [][ (/\ lastOp'.op = "unregister"
         /\ lastOp'.ret = TRUE
         /\ lastOp'.name \in DOMAIN agents)
        => LET n == lastOp'.name
           IN  /\ n \notin DOMAIN agents'
               /\ n \notin DOMAIN endpoints'
               /\ \A c \in DOMAIN capabilities_index' : n \notin capabilities_index'[c]
               /\ \A c \in DOMAIN capabilities_index :
                     (n \in capabilities_index[c] /\ capabilities_index[c] \ {n} = {})
                        => c \notin DOMAIN capabilities_index'
               /\ emitted' = << [event |-> "agent_unregistered", agent_name |-> n] >>
      ]_vars

\* C3 witness: an unregister returned true, deleted the buckets it emptied and
\* left the other agent's bucket in place.
C3_Witness ==
    /\ lastOp.op = "unregister"
    /\ lastOp.ret = TRUE
    /\ Cardinality(DOMAIN agents) = 1
    /\ Cardinality(DOMAIN capabilities_index) = 1
    /\ \A c \in DOMAIN capabilities_index : capabilities_index[c] = DOMAIN agents

\* a step of the registry other than the passing of time
RegistryCall == now' = now /\ <<agents, endpoints, capabilities_index, emitted, lastOp>>'
                              # <<agents, endpoints, capabilities_index, emitted, lastOp>>

\* C26: a sweep evicts every agent whose age exceeds the staleness threshold
\* and no other agent; for each evicted agent the record, the endpoint and
\* the index entries go together and one agent_unregistered event is
\* emitted.
C26_SweepEvictsStale ==
    [][ (RegistryCall /\ lastOp'.op = "cleanup")
           => LET stale == { a \in DOMAIN agents :
                               now - agents[a].last_seen > CleanupMaxAge }
              IN  /\ DOMAIN agents' = DOMAIN agents \ stale
                  /\ DOMAIN endpoints' = DOMAIN endpoints \ stale
                  /\ \A a \in DOMAIN agents' :
                        agents'[a] = agents[a] /\ endpoints'[a] = endpoints[a]
                  /\ \A c \in DOMAIN capabilities_index' :
                        /\ c \in DOMAIN capabilities_index
                        /\ capabilities_index'[c] = capabilities_index[c] \ stale
                  /\ \A c \in DOMAIN capabilities_index :
                        c \notin DOMAIN capabilities_index'
                           => capabilities_index[c] \subseteq stale
                  /\ Len(emitted') = Cardinality(stale)
                  /\ \A a \in stale : \E i \in DOMAIN emitted' :
                        emitted'[i] = [event |-> "agent_unregistered", agent_name |-> a]
      ]_vars

\* C26 witness: a sweep evicted one agent, whose age was over the threshold,
\* and kept another whose age was exactly the threshold.
C26_Witness ==
    /\ lastOp.op = "cleanup"
    /\ Len(emitted) = 1
    /\ Cardinality(DOMAIN agents) = 1
    /\ \A a \in DOMAIN agents : now - agents[a].last_seen = CleanupMaxAge

\* the values of last_seen that the bounded clock outruns by more than the
\* staleness threshold
OutrunTimes ==
    { t \in 0..MaxTime : /\ t % TickSeconds = 0
                         /\ t + CleanupMaxAge + TickSeconds <= MaxTime }

\* C27: with the sweep running, a registered agent whose last_seen is never
\* refreshed is eventually removed from the registry, and a heartbeat for a
\* name that is not registered returns false and creates no record. (The
\* first part is stated for the values of last_seen that the bounded clock
\* can outrun by more than the threshold.)
C27_StaleEventuallyEvicted ==
    /\ \A a \in AgentNames : \A t \in OutrunTimes :
          (a \in DOMAIN agents /\ agents[a].last_seen = t)
             ~> ~(a \in DOMAIN agents /\ agents[a].last_seen = t)
    /\ [][ (RegistryCall /\ lastOp'.op = "heartbeat"
            /\ lastOp'.name \notin DOMAIN agents)
              => /\ lastOp'.ret = FALSE
                 /\ agents' = agents
                 /\ endpoints' = endpoints
                 /\ capabilities_index' = capabilities_index
         ]_vars

\* C27 witness: the sweep has evicted an agent and a later heartbeat for it
\* returned false, leaving it unregistered.
C27_Witness ==
    /\ lastOp.op = "heartbeat"
    /\ lastOp.ret = FALSE
    /\ lastOp.name \notin DOMAIN agents
    /\ lastOp.name \notin DOMAIN endpoints
    /\ now > CleanupMaxAge
    /\ agents # <<>>

\* C28: is_agent_available(name, max_age) is true exactly when the agent is
\* registered and now - last_seen <= max_age, the boundary included.
C28_AvailableIffWithinMaxAge ==
    \A n \in AgentNames : \A m \in MaxAges :
       IsAgentAvailable(n, m)
          <=> (n \in DOMAIN agents /\ now - agents[n].last_seen <= m)

\* C28 witness: one agent's age is exactly a max_age for which it is
\* available, and the other agent, not registered, is not available.
C28_Witness ==
    \E n \in DOMAIN agents : \E u \in AgentNames \ DOMAIN agents :
       /\ now - agents[n].last_seen = CleanupMaxAge
       /\ IsAgentAvailable(n, CleanupMaxAge)
       /\ ~IsAgentAvailable(n, TickSeconds)
       /\ ~IsAgentAvailable(u, CleanupMaxAge)

\* C29 (as claimed): the record and endpoint maps have the same keys, and
\* what is stored for a name (capabilities, endpoint, last_seen) is what its
\* most recent register_agent call stored: it changes by no other call.
C29_StoredIsLastRegistration ==
    [][ /\ DOMAIN agents' = DOMAIN endpoints'
        /\ \A a \in DOMAIN agents \cap DOMAIN agents' :
              (agents'[a] # agents[a] \/ endpoints'[a] # endpoints[a])
                 => (lastOp'.op = "register" /\ lastOp'.name = a)
      ]_vars

\* C29 (amended): the record and endpoint maps have the same keys; a
\* register_agent call stores exactly its arguments for the name, with
\* last_seen = now, replacing what was there and leaving other names alone;
\* capabilities and endpoint of a name change by no other call, and
\* last_seen changes only by register_agent or a heartbeat for that name.
C29_Upsert ==
    [][ /\ DOMAIN agents' = DOMAIN endpoints'
        /\ (RegistryCall /\ lastOp'.op = "register")
              => LET n == lastOp'.name
                 IN  /\ DOMAIN agents' = DOMAIN agents \cup {n}
                     /\ agents'[n] = [name |-> n,
                                      agent_type |-> lastOp'.agent_type,
                                      capabilities |-> lastOp'.capabilities,
                                      last_seen |-> now]
                     /\ endpoints'[n] = lastOp'.endpoint
                     /\ \A a \in DOMAIN agents \ {n} :
                           agents'[a] = agents[a] /\ endpoints'[a] = endpoints[a]
        /\ \A a \in DOMAIN agents \cap DOMAIN agents' :
              /\ (agents'[a].capabilities # agents[a].capabilities
                   \/ endpoints'[a] # endpoints[a])
                    => (lastOp'.op = "register" /\ lastOp'.name = a)
              /\ agents'[a].last_seen # agents[a].last_seen
                    => (lastOp'.op \in {"register", "heartbeat"} /\ lastOp'.name = a)
      ]_vars

\* C29 witness: an agent was registered again, later, with another endpoint
\* and other capabilities, while another agent stays registered.
C29_Witness ==
    /\ lastOp.op = "register"
    /\ Cardinality(DOMAIN agents) = 2
    /\ agents[lastOp.name].last_seen = now
    /\ now > 0
    /\ endpoints[lastOp.name].port = 8002
    /\ \E c \in DOMAIN capabilities_index : capabilities_index[c] = {}

\* C30: a heartbeat or an unregister for a name that is not registered
\* returns false, emits nothing and leaves records, endpoints and index as
\* they were; a heartbeat for a registered name returns true and changes
\* only that record's last_seen.
C30_ExpectedConditionsNoChange ==
    [][ RegistryCall
           => /\ (lastOp'.op \in {"heartbeat", "unregister"}
                  /\ lastOp'.name \notin DOMAIN agents)
                    => /\ lastOp'.ret = FALSE
                       /\ emitted' = <<>>
                       /\ agents' = agents
                       /\ endpoints' = endpoints
                       /\ capabilities_index' = capabilities_index
              /\ (lastOp'.op = "heartbeat" /\ lastOp'.name \in DOMAIN agents)
                    => /\ lastOp'.ret = TRUE
                       /\ emitted' = <<>>
                       /\ agents' = [agents EXCEPT ![lastOp'.name].last_seen = now]
                       /\ endpoints' = endpoints
                       /\ capabilities_index' = capabilities_index
      ]_vars

\* C30 witness: an unregister for a name that is not registered returned
\* false while another agent is registered and indexed.
C30_Witness ==
    /\ lastOp.op = "unregister"
    /\ lastOp.ret = FALSE
    /\ lastOp.name \notin DOMAIN agents
    /\ emitted = <<>>
    /\ agents # <<>>
    /\ capabilities_index # <<>>

C4_PendingRemovedOnce ==
    /\ pending_requests \subseteq DOMAIN call
    /\ \A id \in DOMAIN call :
          /\ removals[id].removed <= 1
          /\ (id \in pending_requests) <=> (removals[id].removed = 0)
          /\ (call[id].pc = "sending" /\ future[id].state = "pending")
                => id \in pending_requests
          /\ (call[id].pc = "waiting" /\ future[id].state = "pending")
                => id \in pending_requests
          /\ call[id].pc \in {"returned", "raised"}
                => (id \notin pending_requests /\ removals[id].removed = 1)

\* C4 witness: a request timed out after its entry had already been removed
\* by a late response, so the timeout's own pop was the second removal.
C4_Witness ==
    \E id \in DOMAIN call :
        /\ call[id].pc = "raised"
        /\ call[id].err.msg = "Request timeout"
        /\ removals[id].noop
        /\ removals[id].removed = 1
        /\ \E other \in DOMAIN call : call[other].pc = "returned"

\* C5 (as claimed): a send_request that gets no matching response times out
\* not before its timeout elapsed and fails with the timeout error type
\* (MCPTimeoutError), with its pending entry removed.
C5_TimeoutErrorType ==
    \A id \in DOMAIN call :
        /\ call[id].pc = "timedout" => now >= call[id].deadline
        /\ (call[id].pc = "raised" /\ future[id].state = "cancelled")
               => /\ call[id].err.type = "MCPTimeoutError"
                  /\ id \notin pending_requests

C7_CreateResponseCorrelates ==
    handled.response.type = "response"
       => /\ handled.response.correlation_id = handled.request.id
          /\ handled.response.request_id = handled.request.id
          /\ handled.response.recipient = handled.request.sender

\* C7 witness: responses were built for a request without a recipient, by a
\* handler that returned.
C7_Witness ==
    /\ handled.response.type = "response"
    /\ handled.response.success = TRUE
    /\ handled.request.recipient = None
    /\ handled.request.sender = "a2"

\* C20: a request whose method has no handler, or whose handler raises, is
\* answered with a response that has success = false and an error, is
\* correlated to the request id and is addressed and posted to the
\* request's sender; a request whose handler returns is answered with
\* success = true and the handler's result; _handle_request finishes in
\* every case.
C20_FailuresBecomeResponses ==
    [][ handled' # handled
           => LET rq == handled'.request
                  rs == handled'.response
                  failing == \/ rq.method \notin DOMAIN message_handlers
                             \/ message_handlers[rq.method] = "raises"
              IN  /\ rs.type = "response"
                  /\ rs.request_id = rq.id
                  /\ rs.correlation_id = rq.id
                  /\ rs.recipient = rq.sender
                  /\ failing => /\ rs.success = FALSE
                                /\ rs.error # None
                                /\ rs.result = None
                  /\ ~failing => /\ rs.success = TRUE
                                 /\ rs.result = "result"
                                 /\ rs.error = None
                  /\ is_connected => posted' = [target |-> rq.sender, msg |-> rs]
      ]_vars

\* C20 witness: a started endpoint with a handler for another method posted
\* the error response for an unregistered method to the request's sender.
C20_Witness ==
    /\ is_connected
    /\ DOMAIN message_handlers = {"m2"}
    /\ handled.response.type = "response"
    /\ handled.request.method = "m1"
    /\ handled.response.success = FALSE
    /\ handled.response.error = "No handler for method"
    /\ posted = [target |-> handled.request.sender, msg |-> handled.response]

\* C25: start() on a connected endpoint and stop() on a stopped endpoint
\* are no-ops: as long as the endpoint stays connected, or stays stopped, no
\* session is opened or closed and the session is the same, and a call that
\* found the endpoint already in the state it asks for changed nothing of
\* the endpoint.
C25_LifecycleIdempotent ==
    [][ /\ ((is_connected /\ is_connected') \/ (~is_connected /\ ~is_connected'))
           => /\ session' = session
              /\ lifecycle'.opens = lifecycle.opens
              /\ lifecycle'.closes = lifecycle.closes
        /\ (lifecycle' # lifecycle /\ lifecycle'.noop)
           => /\ UNCHANGED epVars
              /\ lifecycle'.op = "start" => is_connected
              /\ lifecycle'.op = "stop" => ~is_connected
        /\ (lifecycle' # lifecycle /\ lifecycle'.op = "start" /\ is_connected)
           => lifecycle'.noop /\ UNCHANGED epVars
        /\ (lifecycle' # lifecycle /\ lifecycle'.op = "stop" /\ ~is_connected)
           => lifecycle'.noop /\ UNCHANGED epVars
      ]_vars

\* C25 witness: stop() was called on an endpoint that had been started and
\* stopped once; the session was closed once.
C25_Witness ==
    /\ lifecycle = [op |-> "stop", noop |-> TRUE, opens |-> 1, closes |-> 1]
    /\ ~is_connected
    /\ session = "closed"

\* C38: stop() leaves the pending table, the futures and the waiting callers
\* as they are; a caller that is waiting for its response stops waiting only
\* because its own timer has expired or because its future holds a
\* response, and a future is cancelled only by its caller's expired timer.
C38_StopLeavesPending ==
    [][ /\ (is_connected /\ ~is_connected')
           => /\ pending_requests' = pending_requests
              /\ future' = future
              /\ call' = call
        /\ \A id \in DOMAIN call :
              (call[id].pc = "waiting" /\ call'[id].pc # "waiting")
                 => \/ /\ call'[id].pc = "timedout"
                       /\ now >= call[id].deadline
                    \/ /\ call'[id].pc = "returned"
                       /\ future[id].state = "done"
                       /\ call'[id].ret = future[id].result
        /\ \A id \in DOMAIN future :
              (future[id].state = "pending" /\ future'[id].state = "cancelled")
                 => (call[id].pc = "waiting" /\ now >= call[id].deadline)
      ]_vars

\* C38 witness: after stop() a request is still in the pending table, its
\* future is pending and its caller is still waiting.
C38_Witness ==
    /\ ~is_connected
    /\ lifecycle.op = "stop"
    /\ ~lifecycle.noop
    /\ \E id \in DOMAIN call :
          /\ call[id].pc = "waiting"
          /\ id \in pending_requests
          /\ future[id].state = "pending"
          /\ now < call[id].deadline

\* C21: when send_message returns false for a request, because the
\* endpoint is not connected or because the POST failed, send_request raises
\* at once: it never starts waiting for the response, no time passes
\* between the failed send and the raise, and the pending entry it
\* registered is removed, once.
C21_SendFailureFailsFast ==
    [][ \A id \in DOMAIN call' :
           call'[id].success = "False"
              => /\ call'[id].pc = "raised"
                 /\ call'[id].err.msg = "Failed to send request"
                 /\ ~call'[id].waited
                 /\ call'[id].deadline = 0
                 /\ id \notin pending_requests'
                 /\ removals'[id].removed = 1
                 /\ (id \notin DOMAIN call \/ call[id].success # "False")
                       => now' = now
      ]_vars

\* C21 witness: two requests failed at the send, the second one after its
\* POST was attempted; neither left a pending entry.
C21_Witness ==
    /\ DOMAIN call = {1, 2}
    /\ call[1].success = "False"
    /\ call[2].success = "False"
    /\ call[1].pc = "raised"
    /\ call[2].pc = "raised"
    /\ posted.msg.type = "request"
    /\ posted.msg.id = 2
    /\ pending_requests = {}

\* C22: for an incoming notification of event e the subscribers of e are
\* called once each, in subscription order, with the notification's data,
\* whether or not any of them raises; nothing else is called.
C22_EverySubscriberInvoked ==
    [][ delivered' # delivered
           => LET n == delivered'.notification
                  subs == SubscribersOf(n.event)
                  calls == delivered'.calls
              IN  /\ Len(calls) = Len(subs)
                  /\ \A i \in DOMAIN subs :
                        /\ calls[i].callback = subs[i]
                        /\ calls[i].data = n.data
                  /\ subscribers' = subscribers
      ]_vars

\* C22 witness: a notification of e1 was delivered to three subscribers, the
\* first of which raised.
C22_Witness ==
    /\ delivered.notification.type = "notification"
    /\ delivered.notification.event = "e1"
    /\ Len(delivered.calls) = 3
    /\ delivered.calls[1].raised
    /\ ~delivered.calls[2].raised
    /\ delivered.calls[3].callback = "ok2"

\* C23: send_message returns a boolean and never raises; it makes at most
\* one transport call, none when the endpoint is not connected, and returns
\* true only when that call was made and answered 200; a failing POST, a
\* POST that raises and a serialization failure all give false.
C23_SendMessageBoolean ==
    sendLog.sent
       => /\ sendLog.ret \in BOOLEAN
          /\ ~sendLog.raised
          /\ sendLog.calls \in {0, 1}
          /\ ~sendLog.connected => (sendLog.calls = 0 /\ ~sendLog.ret)
          /\ sendLog.ret <=> (sendLog.connected /\ sendLog.calls = 1
                               /\ sendLog.outcome = "200")
          /\ (sendLog.connected /\ sendLog.outcome # "200") => ~sendLog.ret

\* C23 witness: a connected endpoint posted a message, the peer answered
\* with a status other than 200, and send_message returned false.
C23_Witness ==
    /\ sendLog.sent
    /\ sendLog.connected
    /\ sendLog.outcome = "500"
    /\ sendLog.calls = 1
    /\ sendLog.ret = FALSE
    /\ posted.target = sendLog.target

\* C24 (as claimed): the address a message for a registered agent N is
\* posted to is the endpoint recorded in the registry for N.
C24_ResolvesThroughRegistry ==
    [][ (sendLog' # sendLog /\ sendLog'.sent /\ sendLog'.calls = 1
         /\ sendLog'.target \in DOMAIN endpoints)
           => sendLog'.url = endpoints[sendLog'.target]
      ]_vars

\* the envelope carries a discriminator naming a message kind
KnownKind(data) == "type" \in DOMAIN data /\ data.type \in MessageTypes

\* C31: an inbound envelope whose kind is missing or unknown is refused (reply
\* 400): no message is constructed or dispatched, no handler or subscriber
\* runs, and the pending table, the handler table and the subscriber lists
\* are as before.
C31_UnknownKindRefused ==
    [][ (received' # received /\ ~KnownKind(received'.data))
           => /\ received'.status = "400"
              /\ received'.message = NoMessage
              /\ handled' = handled
              /\ delivered' = delivered
              /\ posted' = posted
              /\ future' = future
              /\ pending_requests' = pending_requests
              /\ removals' = removals
              /\ message_handlers' = message_handlers
              /\ subscribers' = subscribers
      ]_vars

\* C31 witness: an envelope without a discriminator, carrying the method of a
\* registered handler, was refused while a request is pending and an event
\* has a subscriber.
C31_Witness ==
    /\ received.status = "400"
    /\ "type" \notin DOMAIN received.data
    /\ "method" \in DOMAIN received.data
    /\ received.data.method \in DOMAIN message_handlers
    /\ pending_requests # {}
    /\ subscribers # <<>>
    /\ handled.request = NoMessage

\* C33 (as claimed): is_running follows start and stop: a start that runs
\* initialize to the end sets it, a start whose initialize raises fails with
\* AgentStartupError and leaves it false, a stop of a running agent clears
\* it, and start on a running agent or stop on a stopped one raises nothing
\* and runs neither initialize nor cleanup.
C33_RunningTracksLifecycle ==
    [][ \A n \in AgentNames :
          LET a == baseAgents[n]
              b == baseAgents'[n]
          IN  b # a
                 => /\ (b.last.op = "start" /\ a.is_running)
                          => /\ b.is_running
                             /\ b.last.raised = "None"
                             /\ b.inits = a.inits /\ b.cleanups = a.cleanups
                    /\ (b.last.op = "start" /\ ~a.is_running)
                          => \/ b.is_running /\ b.last.raised = "None"
                             \/ ~b.is_running /\ b.last.raised = "AgentStartupError"
                    /\ (b.last.op = "stop" /\ ~a.is_running)
                          => /\ ~b.is_running
                             /\ b.last.raised = "None"
                             /\ b.inits = a.inits /\ b.cleanups = a.cleanups
                    /\ (b.last.op = "stop" /\ a.is_running)
                          => ~b.is_running
      ]_vars

(***************************************************************************)
(* Orchestrator properties                                                 *)
(***************************************************************************)

\* C8 (as claimed): a step with max_retries = n that fails on every attempt
\* is attempted exactly n+1 times and then raises WorkflowExecutionError
\* naming the step and citing n+1 attempts.
C8_RaisesAfterAllAttempts ==
    opc = "raised"
       => /\ attempt + 1 = step.max_retries + 1
          /\ oerr.method = step.method
          /\ oerr.type = "WorkflowExecutionError"
          /\ oerr.cited = step.max_retries + 1
          /\ oerr.unit = "attempts"

\* C9 (as claimed): execute_conversation eventually finishes, by returning
\* the result map or by raising, also when a step depends on a key that no
\* earlier step produces.
C9_EventuallyFinishes == <>(opc \in {"returned", "raised"})

\* C10: execute_task is invoked for a step with dependencies only when every
\* key of depends_on is in the running result map, and the context it is
\* given holds those results.
C10_DependenciesGate ==
    (opc = "executing" /\ step.depends_on # {})
       => /\ \A dep \in step.depends_on : dep \in DOMAIN results
          /\ \A dep \in step.depends_on :
                /\ dep \in DOMAIN lastTask.context
                /\ lastTask.context[dep] = results[dep]

\* C10 witness: a step that depends on an earlier, delegated step is being
\* executed with that step's result in its context.
C10_Witness ==
    /\ opc = "executing"
    /\ step.depends_on = {"ghost"}
    /\ "ghost" \in DOMAIN lastTask.context
    /\ lastTask.context["ghost"].by = "a2"

\* C34: steps run in list order: the loop takes a step only when it is at
\* the start or when the step before has produced its result, which is then
\* in the result map, so execute_task of a later step is never invoked
\* before that; and once a step has raised its terminal error nothing more
\* of the execution runs: no later step is taken and execute_task is not
\* invoked again.
C34_StepsInListOrder ==
    [][ /\ stepIdx' # stepIdx
           => /\ stepIdx' = stepIdx + 1
              /\ opc = "next"
              /\ stepIdx >= 1
                    => /\ successes = 1
                       /\ step.agent_name \in DOMAIN results
                       /\ results[step.agent_name].method = step.method
        /\ invocations' > invocations
           => /\ stepIdx' = stepIdx
              /\ opc = "attempt"
        /\ opc = "raised"
           => /\ opc' = "raised"
              /\ stepIdx' = stepIdx
              /\ invocations' = invocations
              /\ results' = results
      ]_vars

\* C34 witness: the second step of an execution raised its terminal error
\* after the first step had produced its result.
C34_Witness ==
    /\ opc = "raised"
    /\ stepIdx = 2
    /\ results # <<>>
    /\ oerr.type = "WorkflowError"
    /\ failures = step.max_retries + 1

\* the running agents of the factory that advertise a method:
\* agent.has_capability(method) and agent.is_running
RunningAdvertisers(method) ==
    { a \in DOMAIN factory :
         method \in factory[a].capabilities /\ factory[a].is_running }

\* the step the loop is at names an agent the factory does not have, may be
\* delegated, and some running agent advertises its method
Delegable ==
    /\ step # NoStep
    /\ step.agent_name \notin DOMAIN factory
    /\ step.can_delegate
    /\ RunningAdvertisers(step.method) # {}

\* C11 (as claimed): in a workflow [stepA, stepB depending on stepA] whose
\* stepA names an absent agent, may be delegated and has a running agent
\* advertising its method, stepA is executed by such an agent whatever its
\* max_retries, its result is recorded under stepA's key, and stepB then
\* runs with that result in its context.
C11_DelegatedWorkflowAnyRetries ==
    [][ /\ (opc = "attempt" /\ stepIdx = 1 /\ attempt = 0 /\ Delegable
            /\ step.depends_on = {} /\ opc' # opc)
           => /\ opc' = "executing"
              /\ lastTask'.agent \in RunningAdvertisers(step.method)
              /\ lastTask'.method = step.method
        /\ (opc = "executing" /\ stepIdx = 1 /\ Delegable /\ opc' = "next")
           => results' = DictPut(results, step.agent_name,
                                 [by |-> lastTask.agent, method |-> step.method])
        /\ (opc = "next" /\ stepIdx = 1 /\ Delegable /\ stepIdx' = 2
            /\ step'.depends_on = {step.agent_name})
           => opc' = "attempt"
        /\ (opc = "attempt" /\ stepIdx = 2 /\ opc' = "executing"
            /\ step.depends_on # {})
           => \A dep \in step.depends_on :
                 /\ dep \in DOMAIN lastTask'.context
                 /\ lastTask'.context[dep] = results[dep]
      ]_vars

\* C11 (amended): the same workflow with stepA's max_retries at least 1: the
\* first attempt of stepA invokes execute_task on a running agent that
\* advertises its method; when that call returns, the result is recorded
\* under stepA's key; stepB, depending on that key, starts without waiting
\* and is executed with stepA's delegated result in its context.
C11_DelegatedWorkflow ==
    [][ /\ (opc = "attempt" /\ stepIdx = 1 /\ attempt = 0 /\ Delegable
            /\ step.depends_on = {} /\ step.max_retries >= 1 /\ opc' # opc)
           => /\ opc' = "executing"
              /\ lastTask'.agent \in RunningAdvertisers(step.method)
              /\ lastTask'.method = step.method
        /\ (opc = "executing" /\ stepIdx = 1 /\ Delegable /\ opc' = "next")
           => results' = DictPut(results, step.agent_name,
                                 [by |-> lastTask.agent, method |-> step.method])
        /\ (opc = "next" /\ stepIdx = 1 /\ Delegable /\ stepIdx' = 2
            /\ step'.depends_on = {step.agent_name})
           => opc' = "attempt"
        /\ (opc = "attempt" /\ stepIdx = 2 /\ opc' = "executing"
            /\ step.depends_on # {})
           => \A dep \in step.depends_on :
                 /\ dep \in DOMAIN lastTask'.context
                 /\ lastTask'.context[dep] = results[dep]
      ]_vars

\* C11 witness: the second step, naming an agent of the factory and
\* depending on a first step that named an absent agent, is being executed
\* with the result a delegate produced for the first step in its context.
C11_Witness ==
    /\ opc = "executing"
    /\ stepIdx = 2
    /\ step.agent_name = "a1"
    /\ step.depends_on = {"ghost"}
    /\ "ghost" \notin DOMAIN factory
    /\ "ghost" \in DOMAIN lastTask.context
    /\ lastTask.context["ghost"].by \in DOMAIN factory
    /\ factory[lastTask.context["ghost"].by].is_running

\* C35: the agent an attempt invokes is the named agent whenever the factory
\* has it at that attempt; otherwise it is a delegate, only when can_delegate
\* is set, and the delegate is then running and advertises the step's
\* method; the step definition is never rewritten and the result goes under
\* the step's own agent name.
C35_DelegateForAttemptOnly ==
    [][ /\ (opc = "attempt" /\ opc' = "executing")
           => /\ lastTask'.agent \in DOMAIN factory
              /\ step.agent_name \in DOMAIN factory
                    => lastTask'.agent = step.agent_name
              /\ lastTask'.agent # step.agent_name
                    => /\ step.can_delegate
                       /\ lastTask'.agent \in RunningAdvertisers(step.method)
        /\ stepIdx' = stepIdx => step' = step
        /\ (opc = "executing" /\ opc' = "next")
           => DOMAIN results' = DOMAIN results \cup {step.agent_name}
      ]_vars

\* C35 witness: the second attempt of a step that names an absent agent is
\* executed by a delegate again, the step still naming the absent agent.
C35_Witness ==
    /\ opc = "executing"
    /\ step.agent_name = "ghost"
    /\ "ghost" \notin DOMAIN factory
    /\ attempt = 1
    /\ invocations = 2
    /\ lastTask.agent = "a2"
    /\ factory["a2"].is_running

\* C12 (as claimed): when the named agent is absent, delegation is allowed
\* and a running agent advertises the method, no attempt of the step fails
\* with agent-not-found, whatever max_retries is.
C12_NeverAgentNotFound ==
    Delegable => lastFailure # "agent not found"

\* C12 (amended): under the same conditions every attempt before the last
\* allowed one invokes execute_task on a running agent that advertises the
\* method; the last allowed attempt (the only one when max_retries = 0)
\* tries no delegate and fails with agent-not-found, so agent-not-found
\* surfaces only after max_retries delegated invocations.
C12_DelegatesWhileAttemptsRemain ==
    [][ /\ (opc = "attempt" /\ Delegable /\ opc' # opc)
           => IF attempt < step.max_retries
              THEN /\ opc' = "executing"
                   /\ lastTask'.agent \in RunningAdvertisers(step.method)
                   /\ invocations' = invocations + 1
                   /\ lastFailure' = lastFailure
              ELSE /\ opc' = "raised"
                   /\ lastFailure' = "agent not found"
                   /\ invocations' = invocations
        /\ (Delegable /\ lastFailure' = "agent not found")
           => /\ attempt' = step'.max_retries
              /\ invocations' = step'.max_retries
      ]_vars

\* C12 witness: a delegable step with max_retries at least 1 has raised
\* agent-not-found on its last allowed attempt, after its delegate failed on
\* every earlier attempt.
C12_Witness ==
    /\ opc = "raised"
    /\ Delegable
    /\ step.max_retries >= 1
    /\ lastFailure = "agent not found"
    /\ invocations = step.max_retries
    /\ oerr.cause = "agent not found"

C14_ValidationErrorNotRetried ==
    lastFailure = "ValidationError" => (opc = "raised" /\ invocations = 1)

(***************************************************************************)
(* Consensus properties                                                    *)
(***************************************************************************)

\* the agents whose response resolve_consensus collected
Responders == { cResponses[i].agent : i \in DOMAIN cResponses }

\* how many collected responses carry the vote v
Tally(v) == Cardinality({ i \in DOMAIN cResponses : cResponses[i].vote = v })

\* how many collected responses carry a non-empty vote
Counted == Cardinality({ i \in DOMAIN cResponses : cResponses[i].vote # "" })

\* C15 (as claimed): when resolve_consensus returns, the tally holds the
\* response of every listed agent that responds by the deadline and of no
\* agent that stays silent, wherever the silent agents are in the list.
C15_AllRespondersTallied ==
    cpc = "returned"
       => \A i \in DOMAIN cTasks :
             (cTasks[i] \in Responders) <=> (behaviour[cTasks[i]] = "responds")

\* C16 (as claimed): resolve_consensus computes its verdict no later than the
\* request's timeout after collection started, however many agents are
\* silent.
C16_OneDeadline ==
    cpc = "returned" => now <= cStart + cRequest.timeout

\* C17 (as claimed): resolve_consensus never raises because of an individual
\* agent, whether agents respond, stay silent, fail or are unknown.
C17_NeverRaises == cpc # "raised"

\* C18: under the majority rule consensus is reached if and only if some
\* vote is carried by strictly more than half of the counted votes; the
\* result is then that vote, otherwise consensus is false and the result is
\* null.
C18_MajorityRule ==
    (cpc = "returned" /\ cRequest.consensus_type = "majority")
       => /\ verdict.consensus \in BOOLEAN
          /\ verdict.consensus <=> (\E v \in Votes : 2 * Tally(v) > Counted)
          /\ \A v \in Votes : 2 * Tally(v) > Counted => verdict.result = v
          /\ ~verdict.consensus => verdict.result = None

\* C18 witness: the votes [approve, approve, reject] were counted under the
\* majority rule and gave approve.
C18_Witness ==
    /\ cpc = "returned"
    /\ cRequest.consensus_type = "majority"
    /\ CountedVotes(cResponses) = <<"approve", "approve", "reject">>
    /\ verdict.consensus = TRUE
    /\ verdict.result = "approve"

\* C19: under the unanimous rule, with at least one counted vote, consensus
\* is reached if and only if all counted votes are the same vote, which is
\* then the result; otherwise consensus is false and the result is null.
C19_UnanimousRule ==
    (cpc = "returned" /\ cRequest.consensus_type = "unanimous" /\ Counted >= 1)
       => /\ verdict.consensus \in BOOLEAN
          /\ verdict.consensus <=> (\E v \in Votes : Tally(v) = Counted)
          /\ \A v \in Votes : Tally(v) = Counted => verdict.result = v
          /\ ~verdict.consensus => verdict.result = None

\* C19 witness: three agents voted under the unanimous rule, one of them
\* against the other two, and no consensus was returned.
C19_Witness ==
    /\ cpc = "returned"
    /\ cRequest.consensus_type = "unanimous"
    /\ Counted = 3
    /\ Tally("approve") = 2
    /\ verdict.consensus = FALSE
    /\ verdict.result = None

\* C32 (as claimed): the verdict resolve_consensus returns under the
\* majority rule always has a consensus field and a votes field, also when
\* no participant cast a counted vote.
C32_MajorityVerdictHasVotes ==
    (cpc = "returned" /\ cRequest.consensus_type = "majority")
       => {"consensus", "votes"} \subseteq DOMAIN verdict

\* the agents whose execute_task coroutine has begun to run: a coroutine
\* runs from the moment the second loop awaits it
Started == { cTasks[i] : i \in 1..cIdx }

\* C36 (as claimed): the consensus_vote task of every listed agent the
\* factory knows is started at once; none waits for another agent's response
\* or timeout.
C36_AllStartedTogether ==
    cpc \in {"awaiting", "returned"} => Started = Range(cTasks)

\* C40: every verdict is self-consistent: consensus is true if and only if
\* the result is not null, a result that is not null is a vote carried by at
\* least one counted response, and with no counted vote or under the
\* weighted rule the verdict is consensus false with result null.
C40_VerdictSelfConsistent ==
    cpc = "returned"
       => /\ verdict.consensus \in BOOLEAN
          /\ verdict.consensus <=> (verdict.result # None)
          /\ verdict.result # None
                => (verdict.result \in Votes /\ Tally(verdict.result) >= 1)
          /\ (Counted = 0 \/ cRequest.consensus_type = "weighted")
                => (verdict.consensus = FALSE /\ verdict.result = None)

\* C40 witness: two counted votes that differ gave no majority, and the
\* verdict names no result.
C40_Witness ==
    /\ cpc = "returned"
    /\ cRequest.consensus_type = "majority"
    /\ Counted = 2
    /\ Tally("approve") = 1
    /\ verdict.consensus = FALSE
    /\ verdict.result = None

====
